---- MODULE Spec2Model ----
(***************************************************************************)
(* School Management System: the data management layer.                    *)
(*                                                                         *)
(* Two implementations of BaseDataManager are modelled side by side and    *)
(* driven by the same sequence of contract operations:                     *)
(*   mem  MemoryDataManager  - a live object graph (datastore) whose       *)
(*        relationships are Python object references; objects have an      *)
(*        identity, so the graph is a heap of records addressed by         *)
(*        references;                                                      *)
(*   db   DatabaseDataManager - four SQLite tables with primary and        *)
(*        foreign keys; reads rebuild ("hydrate") an object graph from     *)
(*        the rows.                                                        *)
(***************************************************************************)
EXTENDS Integers, Sequences, FiniteSets, TLC

\* ------------------------------------------------------------------------
\* Bounds of the model
\* ------------------------------------------------------------------------
\* number of Student / Instructor / Course objects alive at the same time
MaxStudentObjs == 3
MaxInstructorObjs == 3
MaxCourseObjs == 3
\* number of calls the caller makes
MaxCalls == 6

\* ------------------------------------------------------------------------
\* The strings of the model
\* ------------------------------------------------------------------------
StudentIds == {"202401111", "202302222"}
InstructorIds == {"199801234", "199505678"}
CourseIds == {"EECE230", "MATH201"}
Names == {"John Doe", "Jane Dane"}
InstructorNames == {"Dr. Emily Smith"}
Ages == {20}
Emails == {"jd@lau.edu"}
CourseNames == {"Software Engineering", "Calculus III"}

\* str.strip() on the strings of the model
strip(s) ==
    CASE s = " 202401111 " -> "202401111"
      [] s = " 199801234 " -> "199801234"
      [] s = " EECE230 " -> "EECE230"
      [] s = " John Doe " -> "John Doe"
      [] s = "   " -> ""
      [] OTHER -> s

\* str.upper() on the course ids of the model
upper(s) ==
    CASE s = "eece230" -> "EECE230"
      [] s = "math201" -> "MATH201"
      [] OTHER -> s

\* kwargs.get(key) is truthy: the key is supplied and its value is neither
\* "" (text fields) nor 0 (age)
TruthyStr(kw, key) == key \in DOMAIN kw /\ kw[key] # ""
TruthyInt(kw, key) == key \in DOMAIN kw /\ kw[key] # 0

Range(s) == {s[k] : k \in 1..Len(s)}

\* list.remove(x): removes the first occurrence
RECURSIVE RemoveFirst(_, _)
RemoveFirst(s, x) ==
    IF s = <<>> THEN <<>>
    ELSE IF Head(s) = x THEN Tail(s)
    ELSE <<Head(s)>> \o RemoveFirst(Tail(s), x)

NoDup(s) == \A a, b \in 1..Len(s) : s[a] = s[b] => a = b

\* some enumeration of a finite set (iteration order of rows)
RECURSIVE SetToSeq(_)
SetToSeq(S) ==
    IF S = {} THEN <<>>
    ELSE LET x == CHOOSE y \in S : TRUE IN <<x>> \o SetToSeq(S \ {x})

\* ------------------------------------------------------------------------
\* utils/validator.py
\* ------------------------------------------------------------------------
\* ^[a-zA-Z' .-]+$ on the strings of the model
check_name(name) ==
    strip(name) \in {"John Doe", "Jane Dane", "Dr. Emily Smith", "Dr. Alan Jones"}

check_age(age) == 0 <= age /\ age <= 120

check_email_r(email) == strip(email) \in {"jd@lau.edu", "e.smith@university.edu"}

\* ^\d{9}$
check_id(p_id) ==
    strip(p_id) \in {"202401111", "202302222", "199801234", "199505678"}

\* ^[a-zA-Z]{4}\d{3}[a-zA-Z]?$
check_course_id(c_id) ==
    strip(c_id) \in {"EECE230", "MATH201", "eece230", "math201"}

\* 3 < len <= 100 and ^[a-zA-Z0-9 '.,:&()/-]+$
check_course_name(name) ==
    strip(name) \in {"Software Engineering", "Calculus III"}

\* ------------------------------------------------------------------------
\* Outcomes of a call
\* ------------------------------------------------------------------------
OK == "ok"
ValidationError == "DataError: validation"
AlreadyExists == "DataError: already exists"
NotFound == "DataError: not found"
IdRequired == "DataError: id required"
StoreError == "DataError: store"
\* an exception that is not a DataError leaving the manager
RawValueError == "ValueError"

IsDataError(r) ==
    r \in {ValidationError, AlreadyExists, NotFound, IdRequired, StoreError}

\* ------------------------------------------------------------------------
\* models/: Person, Student, Instructor, Course
\* Objects live in the heaps S, I, C of a graph m; a reference is an index.
\* ------------------------------------------------------------------------
StudentRefs == 1..MaxStudentObjs
InstructorRefs == 1..MaxInstructorObjs
CourseRefs == 1..MaxCourseObjs

\* the smallest reference not in use
NewRef(heap, refs) ==
    CHOOSE r \in refs \ DOMAIN heap : \A q \in refs \ DOMAIN heap : r <= q

Person_init_ok(name, age, email) ==
    check_name(strip(name)) /\ check_age(age) /\ check_email_r(strip(email))

Student_init_ok(kw) ==
    Person_init_ok(kw.name, kw.age, kw.email) /\ check_id(strip(kw.student_id))

Student_init(kw) ==
    [name |-> strip(kw.name), age |-> kw.age, email |-> strip(kw.email),
     student_id |-> strip(kw.student_id), registered_courses |-> <<>>]

Instructor_init_ok(kw) ==
    Person_init_ok(kw.name, kw.age, kw.email) /\ check_id(strip(kw.instructor_id))

Instructor_init(kw) ==
    [name |-> strip(kw.name), age |-> kw.age, email |-> strip(kw.email),
     instructor_id |-> kw.instructor_id, assigned_courses |-> <<>>]

\* a variant that leaves assigned_courses as it is
Instructor_assign_course_never(m, i, c) == m

\* Instructor.assign_course: heap I after instructor i is given course c
Instructor_assign_course(m, i, c) ==
    IF m.C[c].course_id \notin
         {m.C[x].course_id : x \in Range(m.I[i].assigned_courses)}
    THEN [m EXCEPT !.I[i].assigned_courses = Append(@, c)]
    ELSE m

Course_init_ok(kw) ==
    check_course_id(strip(kw.course_id)) /\ check_course_name(strip(kw.course_name))

\* Course.__init__: allocates the course at reference c and registers it
\* with its instructor
Course_init(m, c, kw) ==
    LET obj == [course_id |-> upper(strip(kw.course_id)),
                course_name |-> kw.course_name,
                instructor |-> kw.instructor,
                enrolled_students |-> <<>>]
        m1 == [m EXCEPT !.C = (c :> obj) @@ @]
    IN Instructor_assign_course(m1, kw.instructor, c)

\* Course.add_student
Course_add_student(m, c, s) ==
    IF m.S[s].student_id \notin
         {m.S[x].student_id : x \in Range(m.C[c].enrolled_students)}
    THEN [m EXCEPT !.C[c].enrolled_students = Append(@, s)]
    ELSE m

\* Student.register_course without its membership test
Student_register_course_always(m, s, c) ==
    Course_add_student(
        [m EXCEPT !.S[s].registered_courses = Append(@, c)], c, s)

\* Student.register_course
Student_register_course(m, s, c) ==
    IF m.C[c].course_id \notin
         {m.C[x].course_id : x \in Range(m.S[s].registered_courses)}
    THEN Course_add_student(
            [m EXCEPT !.S[s].registered_courses = Append(@, c)], c, s)
    ELSE m

\* Person.update: the fields are validated and assigned one after the other;
\* a failing field raises after the earlier ones were assigned
Person_update(obj, kw) ==
    LET o1 == IF TruthyStr(kw, "name") /\ check_name(strip(kw.name))
              THEN [obj EXCEPT !.name = strip(kw.name)] ELSE obj
        e1 == TruthyStr(kw, "name") /\ ~check_name(strip(kw.name))
        o2 == IF ~e1 /\ TruthyInt(kw, "age") /\ check_age(kw.age)
              THEN [o1 EXCEPT !.age = kw.age] ELSE o1
        e2 == e1 \/ (TruthyInt(kw, "age") /\ ~check_age(kw.age))
        o3 == IF ~e2 /\ TruthyStr(kw, "email") /\ check_email_r(strip(kw.email))
              THEN [o2 EXCEPT !.email = strip(kw.email)] ELSE o2
        e3 == e2 \/ (TruthyStr(kw, "email") /\ ~check_email_r(strip(kw.email)))
    IN [obj |-> o3, raised |-> e3]

\* Course.update
Course_update(obj, kw) ==
    LET e1 == TruthyStr(kw, "course_name") /\ ~check_course_name(strip(kw.course_name))
        o1 == IF TruthyStr(kw, "course_name") /\ ~e1
              THEN [obj EXCEPT !.course_name = strip(kw.course_name)] ELSE obj
        o2 == IF ~e1 /\ "instructor" \in DOMAIN kw
              THEN [o1 EXCEPT !.instructor = kw.instructor] ELSE o1
    IN [obj |-> o2, raised |-> e1]

\* ------------------------------------------------------------------------
\* Object lifetime: an object exists as long as it can be reached from the
\* datastore dictionaries (Python reference counting / garbage collection)
\* ------------------------------------------------------------------------
Succ(m, n) ==
    CASE n[1] = "S" -> {<<"C", c>> : c \in Range(m.S[n[2]].registered_courses)}
      [] n[1] = "I" -> {<<"C", c>> : c \in Range(m.I[n[2]].assigned_courses)}
      [] n[1] = "C" -> {<<"I", m.C[n[2]].instructor>>}
                         \cup {<<"S", s>> : s \in Range(m.C[n[2]].enrolled_students)}

RECURSIVE ReachFrom(_, _)
ReachFrom(m, nodes) ==
    LET nxt == nodes \cup UNION {Succ(m, n) : n \in nodes}
    IN IF nxt = nodes THEN nodes ELSE ReachFrom(m, nxt)

Roots(m) ==
    {<<"S", m.students[k]>> : k \in DOMAIN m.students}
    \cup {<<"I", m.instructors[k]>> : k \in DOMAIN m.instructors}
    \cup {<<"C", m.courses[k]>> : k \in DOMAIN m.courses}

Restrict(f, D) == [x \in D |-> f[x]]

Collect(m) ==
    LET live == ReachFrom(m, Roots(m))
    IN [m EXCEPT !.S = Restrict(@, {r \in DOMAIN @ : <<"S", r>> \in live}),
                 !.I = Restrict(@, {r \in DOMAIN @ : <<"I", r>> \in live}),
                 !.C = Restrict(@, {r \in DOMAIN @ : <<"C", r>> \in live})]

Done(m, res) == [st |-> Collect(m), res |-> res]

\* ------------------------------------------------------------------------
\* data/dm/memory.py: MemoryDataManager over the module-level datastore
\* (data/dm/file.py: FileManager.students / instructors / courses)
\* ------------------------------------------------------------------------
FileManager_init ==
    [students |-> <<>>, instructors |-> <<>>, courses |-> <<>>,
     S |-> <<>>, I |-> <<>>, C |-> <<>>]

Mem_add_student(m, kw) ==
    IF ~Student_init_ok(kw) THEN Done(m, ValidationError)
    ELSE LET s == Student_init(kw)
             r == NewRef(m.S, StudentRefs)
         IN IF s.student_id \in DOMAIN m.students THEN Done(m, AlreadyExists)
            ELSE Done([m EXCEPT !.S = (r :> s) @@ @,
                                !.students = (s.student_id :> r) @@ @], OK)

Mem_edit_student(m, kw) ==
    IF ~TruthyStr(kw, "student_id") THEN Done(m, IdRequired)
    ELSE IF kw.student_id \notin DOMAIN m.students THEN Done(m, NotFound)
    ELSE LET r == m.students[kw.student_id]
             u == Person_update(m.S[r], kw)
         IN Done([m EXCEPT !.S[r] = u.obj],
                 IF u.raised THEN ValidationError ELSE OK)

Mem_remove_student(m, student_id) ==
    IF student_id \notin DOMAIN m.students THEN Done(m, NotFound)
    ELSE Done([m EXCEPT !.students =
                 Restrict(@, DOMAIN @ \ {student_id})], OK)

Mem_add_instructor(m, kw) ==
    IF ~Instructor_init_ok(kw) THEN Done(m, ValidationError)
    ELSE LET i == Instructor_init(kw)
             r == NewRef(m.I, InstructorRefs)
         IN IF i.instructor_id \in DOMAIN m.instructors THEN Done(m, AlreadyExists)
            ELSE Done([m EXCEPT !.I = (r :> i) @@ @,
                                !.instructors = (i.instructor_id :> r) @@ @], OK)

Mem_edit_instructor(m, kw) ==
    IF ~TruthyStr(kw, "instructor_id") THEN Done(m, IdRequired)
    ELSE IF kw.instructor_id \notin DOMAIN m.instructors THEN Done(m, NotFound)
    ELSE LET r == m.instructors[kw.instructor_id]
             u == Person_update(m.I[r], kw)
         IN Done([m EXCEPT !.I[r] = u.obj],
                 IF u.raised THEN ValidationError ELSE OK)

Mem_remove_instructor(m, instructor_id) ==
    IF instructor_id \notin DOMAIN m.instructors THEN Done(m, NotFound)
    ELSE Done([m EXCEPT !.instructors =
                 Restrict(@, DOMAIN @ \ {instructor_id})], OK)

\* a variant in which the course registers with its instructor before its
\* id and name are validated
Mem_add_course_assign_first(m, kw) ==
    LET c == NewRef(m.C, CourseRefs)
        m1 == Course_init(m, c, kw)
        cid == m1.C[c].course_id
    IN IF ~Course_init_ok(kw) THEN Done(m1, ValidationError)
       ELSE IF cid \in DOMAIN m.courses THEN Done(m1, AlreadyExists)
       ELSE Done([m1 EXCEPT !.courses = (cid :> c) @@ @], OK)

\* Course(**kwargs) runs, and registers the new object with the instructor,
\* before the datastore is asked whether the id is taken
Mem_add_course(m, kw) ==
    IF ~Course_init_ok(kw) THEN Done(m, ValidationError)
    ELSE LET c == NewRef(m.C, CourseRefs)
             m1 == Course_init(m, c, kw)
             cid == m1.C[c].course_id
         IN IF cid \in DOMAIN m.courses THEN Done(m1, AlreadyExists)
            ELSE Done([m1 EXCEPT !.courses = (cid :> c) @@ @], OK)

Mem_edit_course(m, kw) ==
    IF ~TruthyStr(kw, "course_id") THEN Done(m, IdRequired)
    ELSE IF kw.course_id \notin DOMAIN m.courses THEN Done(m, NotFound)
    ELSE LET r == m.courses[kw.course_id]
             u == Course_update(m.C[r], kw)
         IN Done([m EXCEPT !.C[r] = u.obj],
                 IF u.raised THEN ValidationError ELSE OK)

\* the loop "for student in c.enrolled_students:
\*               student.registered_courses.remove(c)";
\* list.remove raises ValueError when c is not in the list
RECURSIVE Mem_unregister_all(_, _, _)
Mem_unregister_all(m, studs, c) ==
    IF studs = <<>> THEN [m |-> m, raised |-> FALSE]
    ELSE LET s == Head(studs)
         IN IF c \notin Range(m.S[s].registered_courses)
            THEN [m |-> m, raised |-> TRUE]
            ELSE Mem_unregister_all(
                   [m EXCEPT !.S[s].registered_courses = RemoveFirst(@, c)],
                   Tail(studs), c)

Mem_remove_course(m, course_id) ==
    IF course_id \notin DOMAIN m.courses THEN Done(m, NotFound)
    ELSE LET c == m.courses[course_id]
             i == m.C[c].instructor
         IN IF c \notin Range(m.I[i].assigned_courses) THEN Done(m, RawValueError)
            ELSE LET m1 == [m EXCEPT !.I[i].assigned_courses = RemoveFirst(@, c)]
                     u == Mem_unregister_all(m1, m1.C[c].enrolled_students, c)
                 IN IF u.raised THEN Done(u.m, RawValueError)
                    ELSE Done([u.m EXCEPT !.courses =
                                 Restrict(@, DOMAIN @ \ {course_id})], OK)

Mem_enroll_student(m, student_id, course_id) ==
    IF student_id \notin DOMAIN m.students THEN Done(m, NotFound)
    ELSE IF course_id \notin DOMAIN m.courses THEN Done(m, NotFound)
    ELSE Done(Student_register_course(m, m.students[student_id],
                                      m.courses[course_id]), OK)

\* ------------------------------------------------------------------------
\* data/db/contract.py and data/db/manager.py: the relational store.
\* A table is a function from its primary key to the other columns;
\* enrollments is a set of <<student_id, course_id>> rows.
\* Every statement either commits or raises sqlite3.Error (raised = TRUE)
\* and leaves the rows as they were.
\* ------------------------------------------------------------------------
create_tables ==
    [students |-> <<>>, instructors |-> <<>>, courses |-> <<>>, enrollments |-> {}]

Committed(d) == [db |-> d, raised |-> FALSE]
IntegrityError(d) == [db |-> d, raised |-> TRUE]

dbm_get_student(d, student_id) == student_id \in DOMAIN d.students
dbm_get_instructor(d, instructor_id) == instructor_id \in DOMAIN d.instructors

\* SELECT ... FROM courses c JOIN instructors i ... WHERE c.course_id = ?
dbm_get_course(d, course_id) ==
    /\ course_id \in DOMAIN d.courses
    /\ d.courses[course_id].instructor_id \in DOMAIN d.instructors

dbm_add_student(d, student_id, name, age, email) ==
    IF student_id \in DOMAIN d.students THEN IntegrityError(d)
    ELSE Committed([d EXCEPT !.students =
            (student_id :> [name |-> name, age |-> age, email |-> email]) @@ @])

\* a variant that writes the whole row: a field that is not supplied is
\* reset
dbm_replace_person(row, kw) ==
    [f \in DOMAIN row |-> IF f \in DOMAIN kw THEN kw[f]
                          ELSE IF f = "age" THEN 0 ELSE ""]

\* UPDATE students SET <the allowed fields supplied> WHERE student_id = ?
dbm_update_person(row, kw) ==
    [f \in DOMAIN row |-> IF f \in DOMAIN kw THEN kw[f] ELSE row[f]]

dbm_update_student(d, kw) ==
    IF DOMAIN kw \cap {"name", "age", "email"} = {} THEN Committed(d)
    ELSE IF kw.student_id \notin DOMAIN d.students THEN Committed(d)
    ELSE Committed([d EXCEPT !.students[kw.student_id] = dbm_update_person(@, kw)])

\* enrollments.student_id REFERENCES students ON DELETE CASCADE
dbm_delete_student(d, student_id) ==
    Committed([d EXCEPT
        !.students = Restrict(@, DOMAIN @ \ {student_id}),
        !.enrollments = {e \in @ : e[1] # student_id}])

dbm_add_instructor(d, instructor_id, name, age, email) ==
    IF instructor_id \in DOMAIN d.instructors THEN IntegrityError(d)
    ELSE Committed([d EXCEPT !.instructors =
            (instructor_id :> [name |-> name, age |-> age, email |-> email]) @@ @])

dbm_update_instructor(d, kw) ==
    IF DOMAIN kw \cap {"name", "age", "email"} = {} THEN Committed(d)
    ELSE IF kw.instructor_id \notin DOMAIN d.instructors THEN Committed(d)
    ELSE Committed([d EXCEPT !.instructors[kw.instructor_id] = dbm_update_person(@, kw)])

\* courses.instructor_id REFERENCES instructors, with no ON DELETE action:
\* the delete is refused while a course row names the instructor
dbm_delete_instructor(d, instructor_id) ==
    IF \E c \in DOMAIN d.courses : d.courses[c].instructor_id = instructor_id
    THEN IntegrityError(d)
    ELSE Committed([d EXCEPT !.instructors = Restrict(@, DOMAIN @ \ {instructor_id})])

dbm_add_course(d, course_id, course_name, instructor_id) ==
    IF course_id \in DOMAIN d.courses \/ instructor_id \notin DOMAIN d.instructors
    THEN IntegrityError(d)
    ELSE Committed([d EXCEPT !.courses =
            (course_id :> [course_name |-> course_name,
                           instructor_id |-> instructor_id]) @@ @])

dbm_update_course(d, kw) ==
    IF DOMAIN kw \cap {"course_name", "instructor_id"} = {} THEN Committed(d)
    ELSE IF kw.course_id \notin DOMAIN d.courses THEN Committed(d)
    ELSE IF "instructor_id" \in DOMAIN kw /\ kw.instructor_id \notin DOMAIN d.instructors
    THEN IntegrityError(d)
    ELSE Committed([d EXCEPT !.courses[kw.course_id] =
            [f \in DOMAIN @ |-> IF f \in DOMAIN kw THEN kw[f] ELSE @[f]]])

\* enrollments.course_id REFERENCES courses ON DELETE CASCADE
dbm_delete_course(d, course_id) ==
    Committed([d EXCEPT
        !.courses = Restrict(@, DOMAIN @ \ {course_id}),
        !.enrollments = {e \in @ : e[2] # course_id}])

\* PRIMARY KEY (student_id, course_id) and both foreign keys
dbm_enroll_student(d, student_id, course_id) ==
    IF \/ <<student_id, course_id>> \in d.enrollments
       \/ student_id \notin DOMAIN d.students
       \/ course_id \notin DOMAIN d.courses
    THEN IntegrityError(d)
    ELSE Committed([d EXCEPT !.enrollments = @ \cup {<<student_id, course_id>>}])

\* ------------------------------------------------------------------------
\* data/dm/database.py: DatabaseDataManager
\* ------------------------------------------------------------------------
\* a variant without the "except sqlite3.Error" clause of the manager
Stmt_unwrapped(r, d) ==
    [st |-> r.db, res |-> IF r.raised THEN "sqlite3.IntegrityError" ELSE OK]

Stmt(r, d) == [st |-> r.db, res |-> IF r.raised THEN StoreError ELSE OK]
Fail(d, res) == [st |-> d, res |-> res]

Db_add_student(d, kw) ==
    IF ~Student_init_ok(kw) THEN Fail(d, ValidationError)
    ELSE IF dbm_get_student(d, Student_init(kw).student_id) THEN Fail(d, AlreadyExists)
    ELSE Stmt(dbm_add_student(d, kw.student_id, kw.name, kw.age, kw.email), d)

Db_edit_student(d, kw) ==
    IF ~TruthyStr(kw, "student_id") THEN Fail(d, IdRequired)
    ELSE IF ~dbm_get_student(d, kw.student_id) THEN Fail(d, NotFound)
    ELSE Stmt(dbm_update_student(d, kw), d)

Db_remove_student(d, student_id) ==
    IF ~dbm_get_student(d, student_id) THEN Fail(d, NotFound)
    ELSE Stmt(dbm_delete_student(d, student_id), d)

Db_add_instructor(d, kw) ==
    IF ~Instructor_init_ok(kw) THEN Fail(d, ValidationError)
    ELSE IF dbm_get_instructor(d, Instructor_init(kw).instructor_id)
    THEN Fail(d, AlreadyExists)
    ELSE Stmt(dbm_add_instructor(d, kw.instructor_id, kw.name, kw.age, kw.email), d)

Db_edit_instructor(d, kw) ==
    IF ~TruthyStr(kw, "instructor_id") THEN Fail(d, IdRequired)
    ELSE IF ~dbm_get_instructor(d, kw.instructor_id) THEN Fail(d, NotFound)
    ELSE Stmt(dbm_update_instructor(d, kw), d)

Db_remove_instructor(d, instructor_id) ==
    IF ~dbm_get_instructor(d, instructor_id) THEN Fail(d, NotFound)
    ELSE Stmt(dbm_delete_instructor(d, instructor_id), d)

\* kw.instructor is the Instructor object the caller passes; only its
\* instructor_id reaches the store
Db_add_course(d, kw) ==
    IF ~Course_init_ok(kw) THEN Fail(d, ValidationError)
    ELSE LET cid == upper(strip(kw.course_id))
         IN IF dbm_get_course(d, cid) THEN Fail(d, AlreadyExists)
            ELSE Stmt(dbm_add_course(d, cid, kw.course_name,
                                     kw.instructor.instructor_id), d)

Db_edit_course(d, kw) ==
    IF ~TruthyStr(kw, "course_id") THEN Fail(d, IdRequired)
    ELSE IF ~dbm_get_course(d, kw.course_id) THEN Fail(d, NotFound)
    ELSE LET kw2 == IF "instructor" \in DOMAIN kw
                    THEN ("instructor_id" :> kw.instructor.instructor_id)
                         @@ Restrict(kw, DOMAIN kw \ {"instructor"})
                    ELSE kw
         IN Stmt(dbm_update_course(d, kw2), d)

Db_remove_course(d, course_id) ==
    IF ~dbm_get_course(d, course_id) THEN Fail(d, NotFound)
    ELSE Stmt(dbm_delete_course(d, course_id), d)

Db_enroll_student(d, student_id, course_id) ==
    IF ~dbm_get_student(d, student_id) THEN Fail(d, NotFound)
    ELSE IF ~dbm_get_course(d, course_id) THEN Fail(d, NotFound)
    ELSE Stmt(dbm_enroll_student(d, student_id, course_id), d)

\* ------------------------------------------------------------------------
\* DatabaseDataManager._get_hydrated_data: the object graph built from the
\* rows.  The result has the shape of a FileManager graph: students,
\* instructors and courses are students_map, instructors_map and
\* courses_map; the heaps S, I, C are all_students, all_instructors and
\* all_courses.  raised = TRUE when a constructor rejects a stored value
\* (ValueError, which the method does not catch).
\* ------------------------------------------------------------------------
student_tuple(d, k) ==
    [name |-> d.students[k].name, age |-> d.students[k].age,
     email |-> d.students[k].email, student_id |-> k]

instructor_tuple(d, k) ==
    [name |-> d.instructors[k].name, age |-> d.instructors[k].age,
     email |-> d.instructors[k].email, instructor_id |-> k]

\* {key(o): o for o in objs}: a later object replaces an earlier one
LastWins(heap, key) ==
    [id \in {heap[n][key] : n \in DOMAIN heap} |->
        CHOOSE n \in DOMAIN heap :
            /\ heap[n][key] = id
            /\ \A n2 \in DOMAIN heap : heap[n2][key] = id => n2 <= n]

\* dbm.get_all_courses(): the join keeps the course rows whose instructor
\* row exists
dbm_get_all_courses(d) ==
    SetToSeq({c \in DOMAIN d.courses :
                d.courses[c].instructor_id \in DOMAIN d.instructors})

RECURSIVE hydrate_courses(_, _, _)
hydrate_courses(g, d, rows) ==
    IF rows = <<>> THEN [g |-> g, raised |-> FALSE]
    ELSE LET row == d.courses[Head(rows)]
             kw == [course_id |-> Head(rows), course_name |-> row.course_name,
                    instructor |-> g.instructors[row.instructor_id]]
         IN IF row.instructor_id \notin DOMAIN g.instructors
            THEN hydrate_courses(g, d, Tail(rows))
            ELSE IF ~Course_init_ok(kw) THEN [g |-> g, raised |-> TRUE]
            ELSE hydrate_courses(Course_init(g, Len(g.C) + 1, kw), d, Tail(rows))

RECURSIVE hydrate_enrollments(_, _)
hydrate_enrollments(g, rows) ==
    IF rows = <<>> THEN g
    ELSE LET e == Head(rows)
         IN IF e[1] \in DOMAIN g.students /\ e[2] \in DOMAIN g.courses
            THEN LET s == g.students[e[1]]
                     c == g.courses[e[2]]
                 IN hydrate_enrollments(
                      [g EXCEPT !.S[s].registered_courses = Append(@, c),
                                !.C[c].enrolled_students = Append(@, s)],
                      Tail(rows))
            ELSE hydrate_enrollments(g, Tail(rows))

get_hydrated_data(d) ==
    LET sk == SetToSeq(DOMAIN d.students)
        ik == SetToSeq(DOMAIN d.instructors)
        bad == \/ \E k \in DOMAIN d.students : ~Student_init_ok(student_tuple(d, k))
               \/ \E k \in DOMAIN d.instructors :
                      ~Instructor_init_ok(instructor_tuple(d, k))
        S == [n \in 1..Len(sk) |-> Student_init(student_tuple(d, sk[n]))]
        I == [n \in 1..Len(ik) |-> Instructor_init(instructor_tuple(d, ik[n]))]
        g0 == [students |-> LastWins(S, "student_id"),
               instructors |-> LastWins(I, "instructor_id"),
               courses |-> <<>>, S |-> S, I |-> I, C |-> <<>>]
        hc == hydrate_courses(g0, d, dbm_get_all_courses(d))
        g1 == [hc.g EXCEPT !.courses = LastWins(hc.g.C, "course_id")]
    IN IF bad \/ hc.raised THEN [g |-> FileManager_init, raised |-> TRUE]
       ELSE [g |-> hydrate_enrollments(g1, SetToSeq(d.enrollments)),
             raised |-> FALSE]

\* ------------------------------------------------------------------------
\* What get / getAll show of a graph: the entities by id, their fields, and
\* their relationships as sets of ids
\* ------------------------------------------------------------------------
RegisteredIds(g, s) == {g.C[c].course_id : c \in Range(g.S[s].registered_courses)}
AssignedIds(g, i) == {g.C[c].course_id : c \in Range(g.I[i].assigned_courses)}
EnrolledIds(g, c) == {g.S[s].student_id : s \in Range(g.C[c].enrolled_students)}

Observe(g) ==
    [students |-> [k \in DOMAIN g.students |->
        LET o == g.S[g.students[k]]
        IN [name |-> o.name, age |-> o.age, email |-> o.email,
            registered_courses |-> RegisteredIds(g, g.students[k])]],
     instructors |-> [k \in DOMAIN g.instructors |->
        LET o == g.I[g.instructors[k]]
        IN [name |-> o.name, age |-> o.age, email |-> o.email,
            assigned_courses |-> AssignedIds(g, g.instructors[k])]],
     courses |-> [k \in DOMAIN g.courses |->
        LET o == g.C[g.courses[k]]
        IN [course_name |-> o.course_name,
            instructor_id |-> g.I[o.instructor].instructor_id,
            enrolled_students |-> EnrolledIds(g, g.courses[k])]]]

\* ------------------------------------------------------------------------
\* database.py: the class-level cache of hydrated objects.  The cache is <<>>
\* (the empty dict) or <<d>>, standing for the objects hydrated from rows d
\* ------------------------------------------------------------------------
clear_cache == <<>>

\* _get_hydrated_data: a cache that is not empty is returned as it is;
\* otherwise the tables are read and the objects built from them are cached
get_hydrated_cache(c, d) ==
    IF c # <<>> THEN [cache |-> c, raised |-> FALSE]
    ELSE IF get_hydrated_data(d).raised THEN [cache |-> c, raised |-> TRUE]
    ELSE [cache |-> <<d>>, raised |-> FALSE]

\* a variant of the read that does not invalidate the cache first
Db_read_cached(c, d) == get_hydrated_cache(c, d)

\* get_* / data_to_*: _clear_cache(), then _get_hydrated_data()
Db_read(c, d) == get_hydrated_cache(clear_cache, d)

\* the object graph a read was served
Served(r) == get_hydrated_data(r.cache[1]).g

\* ------------------------------------------------------------------------
\* The two managers under one caller
\* ------------------------------------------------------------------------
VARIABLES
    mem,    \* memory.py: datastore, the graph of the MemoryDataManager
    db,     \* database.py: dbm, the rows of the DatabaseDataManager
    op,     \* the last call: <<operation, first id, second id>>
    mres,   \* its outcome on the MemoryDataManager
    dres,   \* its outcome on the DatabaseDataManager
    calls,  \* the number of calls made so far
    files,  \* the JSON file and the CSV directory each manager exports to
    cache   \* database.py: DatabaseDataManager._cache

vars == <<mem, db, op, mres, dres, calls, files, cache>>

\* a path that does not exist, and a directory without any of its four files
NoFile == [kind |-> "missing",
           data |-> [students |-> <<>>, instructors |-> <<>>, courses |-> <<>>]]
NoCsv == [exists |-> FALSE, rows |-> <<>>]
NoDir == [instructors |-> NoCsv, students |-> NoCsv, courses |-> NoCsv,
          enrollments |-> NoCsv]

Init ==
    /\ mem = FileManager_init
    /\ db = create_tables
    /\ op = <<"init", "", "">>
    /\ mres = OK
    /\ dres = OK
    /\ calls = 0
    /\ files = [mjson |-> NoFile, djson |-> NoFile, mcsv |-> NoDir, dcsv |-> NoDir]
    /\ cache = clear_cache

\* one call made on both managers
Invoke(name, a, b, m, d) ==
    /\ calls' = calls + 1
    /\ mem' = m.st
    /\ mres' = m.res
    /\ db' = d.st
    /\ dres' = d.res
    /\ op' = <<name, a, b>>

\* a call that touches neither a file nor the cache
Call(name, a, b, m, d) ==
    /\ Invoke(name, a, b, m, d)
    /\ UNCHANGED <<files, cache>>

\* a read: the DatabaseDataManager leaves the cache as its hydration left it
Read(name, a, m, d) ==
    /\ Invoke(name, a, "", [st |-> mem, res |-> m], [st |-> db, res |-> d])
    /\ cache' = Db_read(cache, db).cache
    /\ UNCHANGED files

\* the Instructor object a caller of the DatabaseDataManager holds for the
\* instructor that the caller of the MemoryDataManager passes as object i
DbInstructor(i) == [instructor_id |-> mem.I[i].instructor_id]

AddStudent ==
    \E kw \in [name : Names, age : Ages, email : Emails, student_id : StudentIds] :
        /\ calls < MaxCalls
        /\ DOMAIN mem.S # StudentRefs
        /\ Call("add_student", kw.student_id, "",
                Mem_add_student(mem, kw), Db_add_student(db, kw))

EditStudent ==
    \E kw \in [name : Names, age : Ages, email : Emails, student_id : StudentIds] :
        /\ calls < MaxCalls
        /\ Call("edit_student", kw.student_id, "",
                Mem_edit_student(mem, kw), Db_edit_student(db, kw))

RemoveStudent ==
    \E id \in StudentIds :
        /\ calls < MaxCalls
        /\ Call("remove_student", id, "",
                Mem_remove_student(mem, id), Db_remove_student(db, id))

AddInstructor ==
    \E kw \in [name : InstructorNames, age : Ages, email : Emails,
                instructor_id : InstructorIds] :
        /\ calls < MaxCalls
        /\ DOMAIN mem.I # InstructorRefs
        /\ Call("add_instructor", kw.instructor_id, "",
                Mem_add_instructor(mem, kw), Db_add_instructor(db, kw))

EditInstructor ==
    \E kw \in [name : InstructorNames, age : Ages, email : Emails,
                instructor_id : InstructorIds] :
        /\ calls < MaxCalls
        /\ Call("edit_instructor", kw.instructor_id, "",
                Mem_edit_instructor(mem, kw), Db_edit_instructor(db, kw))

RemoveInstructor ==
    \E id \in InstructorIds :
        /\ calls < MaxCalls
        /\ Call("remove_instructor", id, "",
                Mem_remove_instructor(mem, id), Db_remove_instructor(db, id))

\* the instructor is an Instructor object the caller obtained from the manager
AddCourse ==
    \E id \in CourseIds, cn \in CourseNames, i \in DOMAIN mem.I :
        /\ calls < MaxCalls
        /\ DOMAIN mem.C # CourseRefs
        /\ Call("add_course", id, mem.I[i].instructor_id,
                Mem_add_course(mem, [course_id |-> id, course_name |-> cn,
                                     instructor |-> i]),
                Db_add_course(db, [course_id |-> id, course_name |-> cn,
                                   instructor |-> DbInstructor(i)]))

EditCourse ==
    \E id \in CourseIds, cn \in CourseNames, i \in DOMAIN mem.I :
        /\ calls < MaxCalls
        /\ Call("edit_course", id, mem.I[i].instructor_id,
                Mem_edit_course(mem, [course_id |-> id, course_name |-> cn,
                                      instructor |-> i]),
                Db_edit_course(db, [course_id |-> id, course_name |-> cn,
                                    instructor |-> DbInstructor(i)]))

RemoveCourse ==
    \E id \in CourseIds :
        /\ calls < MaxCalls
        /\ Call("remove_course", id, "",
                Mem_remove_course(mem, id), Db_remove_course(db, id))

EnrollStudent ==
    \E s \in StudentIds, c \in CourseIds :
        /\ calls < MaxCalls
        /\ Call("enroll_student", s, c,
                Mem_enroll_student(mem, s, c), Db_enroll_student(db, s, c))

Next ==
    \/ AddStudent
    \/ EditStudent
    \/ RemoveStudent
    \/ AddInstructor
    \/ EditInstructor
    \/ RemoveInstructor
    \/ AddCourse
    \/ EditCourse
    \/ RemoveCourse
    \/ EnrollStudent

Spec == Init /\ [][Next]_vars

\* ------------------------------------------------------------------------
\* Properties
\* ------------------------------------------------------------------------
\* the graph a caller of the DatabaseDataManager reads
Hydrated(d) == get_hydrated_data(d).g
DbGraph == Hydrated(db)

RegisteredSeq(g, s) ==
    [k \in 1..Len(g.S[s].registered_courses) |->
        g.C[g.S[s].registered_courses[k]].course_id]
EnrolledSeq(g, c) ==
    [k \in 1..Len(g.C[c].enrolled_students) |->
        g.S[g.C[c].enrolled_students[k]].student_id]
AssignedSeq(g, i) ==
    [k \in 1..Len(g.I[i].assigned_courses) |->
        g.C[g.I[i].assigned_courses[k]].course_id]

\* no relationship list of an entity of the graph names an id twice
NoDuplicateEdges(g) ==
    /\ \A s \in DOMAIN g.students : NoDup(RegisteredSeq(g, g.students[s]))
    /\ \A c \in DOMAIN g.courses : NoDup(EnrolledSeq(g, g.courses[c]))

\* invariant 2 of the data model on a graph g
EnrollmentSymmetric(g) ==
    /\ \A s \in DOMAIN g.students, c \in DOMAIN g.courses :
          c \in RegisteredIds(g, g.students[s])
            <=> s \in EnrolledIds(g, g.courses[c])
    /\ NoDuplicateEdges(g)

\* C1: on the MemoryDataManager, for every student s and course c of the
\* graph, c is in s.registered_courses iff s (by id) is in
\* c.enrolled_students, each at most once
C1_EnrollmentSymmetry == EnrollmentSymmetric(mem)

\* invariant 1 of the data model on a graph g
InstructorLinked(g) ==
    /\ \A c \in DOMAIN g.courses :
          LET i == g.C[g.courses[c]].instructor
          IN /\ g.I[i].instructor_id \in DOMAIN g.instructors
             /\ g.instructors[g.I[i].instructor_id] = i
    /\ \A k \in DOMAIN g.instructors :
          LET i == g.instructors[k]
          IN /\ NoDup(g.I[i].assigned_courses)
             /\ Range(g.I[i].assigned_courses) =
                  {g.courses[c] : c \in {x \in DOMAIN g.courses :
                                           g.C[g.courses[x]].instructor = i}}

\* C2: on both managers every course's instructor is the instructor the
\* graph holds under that id, and an instructor's assigned_courses holds
\* exactly the courses of the graph whose instructor it is, each once
C2_InstructorLinkage ==
    \A g \in {DbGraph} : InstructorLinked(mem) /\ InstructorLinked(g)

\* course c is named by no student and no instructor of the graph
Detached(g, c) ==
    /\ c \notin DOMAIN g.courses
    /\ \A s \in DOMAIN g.students : c \notin RegisteredIds(g, g.students[s])
    /\ \A i \in DOMAIN g.instructors : c \notin AssignedIds(g, g.instructors[i])

\* C3: on the MemoryDataManager remove_course(c) of a course of the graph
\* succeeds, leaves c in no assigned_courses and no registered_courses, makes
\* get_course(c) fail, and keeps the students and the instructors
C3_CascadeDetach ==
    [][\A c \in CourseIds :
        (op' = <<"remove_course", c, "">> /\ c \in DOMAIN mem.courses)
        => /\ mres' = OK
           /\ Detached(mem', c)
           /\ DOMAIN mem'.students = DOMAIN mem.students
           /\ DOMAIN mem'.instructors = DOMAIN mem.instructors]_vars

\* the id under which an add stores its entity is taken in graph g
Taken(g, o) ==
    \/ o[1] = "add_student" /\ o[2] \in DOMAIN g.students
    \/ o[1] = "add_instructor" /\ o[2] \in DOMAIN g.instructors
    \/ o[1] = "add_course" /\ o[2] \in DOMAIN g.courses

\* C4: on both managers an add with an id already present fails with
\* AlreadyExists and leaves the whole graph as it was
C4_Uniqueness ==
    [][\A d2 \in {db'} : \A g \in {DbGraph}, g2 \in {Hydrated(d2)} :
        /\ Taken(mem, op') =>
             (mres' = AlreadyExists /\ Observe(mem') = Observe(mem))
        /\ Taken(g, op') =>
             (dres' = AlreadyExists /\ Observe(g2) = Observe(g))]_vars

\* C5: on both managers, when enroll_student(s, c) of an existing student
\* and an existing course is called again, the graph observed after the
\* second call is the graph observed after the first, and no
\* registered_courses or enrolled_students list names an id twice
C5_IdempotentEnrollment ==
    /\ [][(op[1] = "enroll_student" /\ op' = op)
            => \A d2 \in {db'} : \A g \in {DbGraph}, g2 \in {Hydrated(d2)} :
                /\ mres # NotFound => Observe(mem') = Observe(mem)
                /\ dres # NotFound => Observe(g2) = Observe(g)]_vars
    /\ [](\A g \in {DbGraph} : NoDuplicateEdges(mem) /\ NoDuplicateEdges(g))

\* a second enroll_student call in a row was made for an existing pair, on
\* both managers
C5_Witness ==
    /\ op[1] = "enroll_student"
    /\ mres = OK
    /\ dres = StoreError
    /\ op[2] \in DOMAIN mem.students
    /\ op[3] \in RegisteredIds(mem, mem.students[op[2]])
    /\ <<op[2], op[3]>> \in db.enrollments

\* the pair is enrolled in graph g
Enrolled(g, s, c) ==
    /\ s \in DOMAIN g.students
    /\ c \in DOMAIN g.courses
    /\ c \in RegisteredIds(g, g.students[s])

\* C6: on both managers enroll_student of an already enrolled pair returns
\* normally
C6_ReEnrollReturnsNormally ==
    [][\A s \in StudentIds, c \in CourseIds, g \in {DbGraph} :
        op' = <<"enroll_student", s, c>>
        => /\ Enrolled(mem, s, c) => mres' = OK
           /\ Enrolled(g, s, c) => dres' = OK]_vars

\* the courses of a graph without the student s in their enrolled_students
CoursesWithout(g, s) ==
    [c \in DOMAIN Observe(g).courses |->
        [Observe(g).courses[c] EXCEPT !.enrolled_students = @ \ {s}]]

\* after remove_student(s) no course of g2 lists s, and the courses and the
\* instructors of g are those of g2
Severed(g, g2, s) ==
    /\ \A c \in DOMAIN g2.courses : s \notin EnrolledIds(g2, g2.courses[c])
    /\ CoursesWithout(g2, s) = CoursesWithout(g, s)
    /\ Observe(g2).instructors = Observe(g).instructors

\* C7: on both managers, after a successful remove_student(s) no course
\* lists s in enrolled_students and no course or instructor was deleted or
\* changed
C7_RemoveStudentSevers ==
    [][\A d2 \in {db'} :
       \A s \in StudentIds, g \in {DbGraph}, g2 \in {Hydrated(d2)} :
        op' = <<"remove_student", s, "">>
        => /\ mres' = OK => Severed(mem, mem', s)
           /\ dres' = OK => Severed(g, g2, s)]_vars

\* after remove_instructor(i) no course of g2 has i as its instructor and
\* g2 has the courses of g
Unreferenced(g, g2, i) ==
    /\ \A c \in DOMAIN g2.courses : Observe(g2).courses[c].instructor_id # i
    /\ DOMAIN g2.courses = DOMAIN g.courses

\* C8: on both managers, after a successful remove_instructor(i) no course
\* of the graph has i as its instructor and no course was deleted
C8_RemoveInstructorConsistent ==
    [][\A d2 \in {db'} :
       \A i \in InstructorIds, g \in {DbGraph}, g2 \in {Hydrated(d2)} :
        op' = <<"remove_instructor", i, "">>
        => /\ mres' = OK => Unreferenced(mem, mem', i)
           /\ dres' = OK => Unreferenced(g, g2, i)]_vars

\* edit_course moved course c of graph g to another instructor of the graph
Reassigned(g, g2, c, new) ==
    /\ c \in DOMAIN g.courses
    /\ Observe(g).courses[c].instructor_id # new
    /\ Observe(g).courses[c].instructor_id \in DOMAIN g2.instructors
    /\ new \in DOMAIN g2.instructors

\* the old instructor no longer lists c, the new one lists it once, and c
\* names the new one
Moved(g, g2, c, new) ==
    LET old == Observe(g).courses[c].instructor_id
    IN /\ Observe(g2).courses[c].instructor_id = new
       /\ c \notin AssignedIds(g2, g2.instructors[old])
       /\ Len(SelectSeq(AssignedSeq(g2, g2.instructors[new]),
                        LAMBDA x : x = c)) = 1

\* C9: on both managers a successful edit_course(c, instructor = new) takes
\* c out of the old instructor's assigned_courses and puts it once into the
\* new instructor's
C9_ReassignInstructor ==
    [][\A d2 \in {db'} :
       \A c \in CourseIds, new \in InstructorIds,
          g \in {DbGraph}, g2 \in {Hydrated(d2)} :
        op' = <<"edit_course", c, new>>
        => /\ (mres' = OK /\ Reassigned(mem, mem', c, new))
                => Moved(mem, mem', c, new)
           /\ (dres' = OK /\ Reassigned(g, g2, c, new))
                => Moved(g, g2, c, new)]_vars

\* success, a DataError, or another exception
Outcome(r) == IF r = OK THEN "success"
              ELSE IF IsDataError(r) THEN "DataError" ELSE "exception"

\* C10: after every call the two managers gave the same outcome and show
\* the same graph
C10_BackendEquivalence ==
    \A g \in {DbGraph} :
        /\ Outcome(mres) = Outcome(dres)
        /\ Observe(mem) = Observe(g)

\* ------------------------------------------------------------------------
\* data/dm/file.py: FileManager, export and import of a graph.
\* A JSON file is [kind, data]: kind "json" with data the document, or
\* "missing" (no such path) or "malformed" (not a JSON text).  A CSV file is
\* [exists, rows], a row being what csv.DictReader yields: every column a
\* string.
\* ------------------------------------------------------------------------
\* an exception that is not a DataError leaving the manager: dict[key] of a
\* key the dict lacks
RawKeyError == "KeyError"

\* str(age) and int(row["age"]) on the ages of the model
str(n) ==
    CASE n = 0 -> "0"
      [] n = 20 -> "20"
      [] n = 21 -> "21"
      [] n = 120 -> "120"
      [] n = 121 -> "121"

int(s) ==
    CASE s = "0" -> 0
      [] s = "20" -> 20
      [] s = "21" -> 21
      [] s = "120" -> 120
      [] s = "121" -> 121

\* dict.values() of one of the dictionaries of a graph, as references
Values(dict) ==
    LET keys == SetToSeq(DOMAIN dict)
    IN [k \in 1..Len(keys) |-> dict[keys[k]]]

Person_to_dict(o) == [name |-> o.name, age |-> o.age, email |-> o.email]

Student_to_dict(m, s) ==
    [student_id |-> m.S[s].student_id,
     registered_courses |-> RegisteredSeq(m, s)] @@ Person_to_dict(m.S[s])

Instructor_to_dict(m, i) ==
    [instructor_id |-> m.I[i].instructor_id,
     assigned_courses |-> AssignedSeq(m, i)] @@ Person_to_dict(m.I[i])

Course_to_dict(m, c) ==
    [course_id |-> m.C[c].course_id, course_name |-> m.C[c].course_name,
     instructor_id |-> m.I[m.C[c].instructor].instructor_id,
     enrolled_students |-> EnrolledSeq(m, c)]

\* FileManager.save_to_json followed by json.dump: the file written
save_to_json(m) ==
    LET ss == Values(m.students)
        is == Values(m.instructors)
        cs == Values(m.courses)
    IN [kind |-> "json",
        data |-> [students |-> [k \in 1..Len(ss) |-> Student_to_dict(m, ss[k])],
                  instructors |-> [k \in 1..Len(is) |-> Instructor_to_dict(m, is[k])],
                  courses |-> [k \in 1..Len(cs) |-> Course_to_dict(m, cs[k])]]]

\* the loops of load_from_json and load_from_csv over the entries read;
\* raised = TRUE when a constructor raises ValueError, g being the graph
\* built up to that entry
RECURSIVE read_instructors(_, _)
read_instructors(g, rows) ==
    IF rows = <<>> THEN [g |-> g, raised |-> FALSE]
    ELSE LET kw == Head(rows)
             r == Len(g.I) + 1
         IN IF ~Instructor_init_ok(kw) THEN [g |-> g, raised |-> TRUE]
            ELSE read_instructors(
                   [g EXCEPT !.I = (r :> Instructor_init(kw)) @@ @,
                             !.instructors = (kw.instructor_id :> r) @@ @],
                   Tail(rows))

RECURSIVE read_students(_, _)
read_students(g, rows) ==
    IF rows = <<>> THEN [g |-> g, raised |-> FALSE]
    ELSE LET kw == Head(rows)
             r == Len(g.S) + 1
         IN IF ~Student_init_ok(kw) THEN [g |-> g, raised |-> TRUE]
            ELSE read_students(
                   [g EXCEPT !.S = (r :> Student_init(kw)) @@ @,
                             !.students = (kw.student_id :> r) @@ @],
                   Tail(rows))

\* a course whose instructor_id names no instructor read before is skipped
RECURSIVE read_courses(_, _)
read_courses(g, rows) ==
    IF rows = <<>> THEN [g |-> g, raised |-> FALSE]
    ELSE LET row == Head(rows)
             c == Len(g.C) + 1
             kw == [course_id |-> row.course_id, course_name |-> row.course_name,
                    instructor |-> g.instructors[row.instructor_id]]
         IN IF row.instructor_id \notin DOMAIN g.instructors
            THEN read_courses(g, Tail(rows))
            ELSE IF ~Course_init_ok(kw) THEN [g |-> g, raised |-> TRUE]
            ELSE read_courses(
                   [Course_init(g, c, kw) EXCEPT
                       !.courses = (row.course_id :> c) @@ @],
                   Tail(rows))

\* "for course_id in s_data["registered_courses"]": the courses that exist
\* are registered
RECURSIVE link_courses(_, _, _)
link_courses(g, s, ids) ==
    IF ids = <<>> THEN g
    ELSE IF Head(ids) \in DOMAIN g.courses
    THEN link_courses(Student_register_course(g, s, g.courses[Head(ids)]),
                      s, Tail(ids))
    ELSE link_courses(g, s, Tail(ids))

RECURSIVE link_students(_, _)
link_students(g, rows) ==
    IF rows = <<>> THEN g
    ELSE link_students(
           link_courses(g, g.students[Head(rows).student_id],
                        Head(rows).registered_courses),
           Tail(rows))

\* a student entry whose registered_courses are the course entries that
\* list the student in enrolled_students
EnrolledSide(entry, cs) ==
    LET Lists(e) == entry.student_id \in Range(e.enrolled_students)
        es == SelectSeq(cs, Lists)
    IN [entry EXCEPT !.registered_courses = [k \in 1..Len(es) |-> es[k].course_id]]

\* a load_from_json that links students and courses from the courses'
\* enrolled_students lists
load_from_json_course_side(file) ==
    LET doc == file.data
        ri == read_instructors(FileManager_init, doc.instructors)
        rs == read_students(ri.g, doc.students)
        rc == read_courses(rs.g, doc.courses)
    IN IF file.kind # "json" THEN [g |-> FileManager_init, res |-> OK]
       ELSE IF "instructors" \notin DOMAIN doc
       THEN [g |-> FileManager_init, res |-> RawKeyError]
       ELSE IF ri.raised THEN [g |-> ri.g, res |-> RawValueError]
       ELSE IF "students" \notin DOMAIN doc THEN [g |-> ri.g, res |-> RawKeyError]
       ELSE IF rs.raised THEN [g |-> rs.g, res |-> RawValueError]
       ELSE IF "courses" \notin DOMAIN doc THEN [g |-> rs.g, res |-> RawKeyError]
       ELSE IF rc.raised THEN [g |-> rc.g, res |-> RawValueError]
       ELSE [g |-> link_students(rc.g,
                     [k \in 1..Len(doc.students) |->
                         EnrolledSide(doc.students[k], doc.courses)]),
             res |-> OK]

\* FileManager.load_from_json on an empty FileManager or after the three
\* clear() calls: the graph it leaves and how it ends
load_from_json(file) ==
    LET doc == file.data
        ri == read_instructors(FileManager_init, doc.instructors)
        rs == read_students(ri.g, doc.students)
        rc == read_courses(rs.g, doc.courses)
    IN IF file.kind # "json" THEN [g |-> FileManager_init, res |-> OK]
       ELSE IF "instructors" \notin DOMAIN doc
       THEN [g |-> FileManager_init, res |-> RawKeyError]
       ELSE IF ri.raised THEN [g |-> ri.g, res |-> RawValueError]
       ELSE IF "students" \notin DOMAIN doc THEN [g |-> ri.g, res |-> RawKeyError]
       ELSE IF rs.raised THEN [g |-> rs.g, res |-> RawValueError]
       ELSE IF "courses" \notin DOMAIN doc THEN [g |-> rs.g, res |-> RawKeyError]
       ELSE IF rc.raised THEN [g |-> rc.g, res |-> RawValueError]
       ELSE [g |-> link_students(rc.g, doc.students), res |-> OK]

\* a row of instructors.csv / students.csv
Person_to_row(o, idkey, id) ==
    (idkey :> id) @@ [name |-> o.name, age |-> str(o.age), email |-> o.email]

\* the rows of enrollments.csv: one per registered course of every student
RECURSIVE enrollment_rows(_, _)
enrollment_rows(m, ss) ==
    IF ss = <<>> THEN <<>>
    ELSE LET ids == RegisteredSeq(m, Head(ss))
         IN [k \in 1..Len(ids) |->
                [student_id |-> m.S[Head(ss)].student_id, course_id |-> ids[k]]]
            \o enrollment_rows(m, Tail(ss))

\* FileManager.save_to_csv: the four files written
save_to_csv(m) ==
    LET ss == Values(m.students)
        is == Values(m.instructors)
        cs == Values(m.courses)
    IN [instructors |-> [exists |-> TRUE, rows |->
            [k \in 1..Len(is) |->
                Person_to_row(m.I[is[k]], "instructor_id", m.I[is[k]].instructor_id)]],
        students |-> [exists |-> TRUE, rows |->
            [k \in 1..Len(ss) |->
                Person_to_row(m.S[ss[k]], "student_id", m.S[ss[k]].student_id)]],
        courses |-> [exists |-> TRUE, rows |->
            [k \in 1..Len(cs) |->
                [course_id |-> m.C[cs[k]].course_id,
                 course_name |-> m.C[cs[k]].course_name,
                 instructor_id |-> m.I[m.C[cs[k]].instructor].instructor_id]]],
        enrollments |-> [exists |-> TRUE, rows |-> enrollment_rows(m, ss)]]

\* int(row["age"]) on every row
with_int_age(rows) == [k \in 1..Len(rows) |-> [rows[k] EXCEPT !.age = int(@)]]

\* the loop over enrollments.csv
RECURSIVE link_enrollments(_, _)
link_enrollments(g, rows) ==
    IF rows = <<>> THEN g
    ELSE LET e == Head(rows)
         IN IF e.student_id \in DOMAIN g.students /\ e.course_id \in DOMAIN g.courses
            THEN link_enrollments(
                   Student_register_course(g, g.students[e.student_id],
                                           g.courses[e.course_id]),
                   Tail(rows))
            ELSE link_enrollments(g, Tail(rows))

\* load_from_csv without the three clear() calls of its except clause
load_from_csv_no_clear(dir) ==
    LET ri == read_instructors(FileManager_init, with_int_age(dir.instructors.rows))
        rs == read_students(ri.g, with_int_age(dir.students.rows))
        rc == read_courses(rs.g, dir.courses.rows)
    IN IF ~dir.instructors.exists THEN [g |-> FileManager_init, res |-> OK]
       ELSE IF ri.raised THEN [g |-> ri.g, res |-> RawValueError]
       ELSE IF ~dir.students.exists THEN [g |-> ri.g, res |-> OK]
       ELSE IF rs.raised THEN [g |-> rs.g, res |-> RawValueError]
       ELSE IF ~dir.courses.exists THEN [g |-> rs.g, res |-> OK]
       ELSE IF rc.raised THEN [g |-> rc.g, res |-> RawValueError]
       ELSE IF ~dir.enrollments.exists THEN [g |-> rc.g, res |-> OK]
       ELSE [g |-> link_enrollments(rc.g, dir.enrollments.rows), res |-> OK]

\* FileManager.load_from_csv: a file that is not there ends the import with
\* the three dictionaries cleared
load_from_csv(dir) ==
    LET ri == read_instructors(FileManager_init, with_int_age(dir.instructors.rows))
        rs == read_students(ri.g, with_int_age(dir.students.rows))
        rc == read_courses(rs.g, dir.courses.rows)
    IN IF ~dir.instructors.exists THEN [g |-> FileManager_init, res |-> OK]
       ELSE IF ri.raised THEN [g |-> ri.g, res |-> RawValueError]
       ELSE IF ~dir.students.exists THEN [g |-> FileManager_init, res |-> OK]
       ELSE IF rs.raised THEN [g |-> rs.g, res |-> RawValueError]
       ELSE IF ~dir.courses.exists THEN [g |-> FileManager_init, res |-> OK]
       ELSE IF rc.raised THEN [g |-> rc.g, res |-> RawValueError]
       ELSE IF ~dir.enrollments.exists THEN [g |-> FileManager_init, res |-> OK]
       ELSE [g |-> link_enrollments(rc.g, dir.enrollments.rows), res |-> OK]

\* MemoryDataManager.data_to_json / data_to_csv: the file written
Mem_data_to_json(m) == save_to_json(m)
Mem_data_to_csv(m) == save_to_csv(m)

\* MemoryDataManager.data_from_json / data_from_csv: the datastore is
\* cleared and loaded in place
Mem_data_from_json(m, file) ==
    LET r == load_from_json(file) IN Done(r.g, r.res)

Mem_data_from_csv(m, dir) ==
    LET r == load_from_csv(dir) IN Done(r.g, r.res)

\* DatabaseManager.clear_all_tables
clear_all_tables(d) == Committed(create_tables)

\* DatabaseDataManager._populate_db_from_file_manager: one INSERT, committed,
\* per object; the first sqlite3.Error ends it
RECURSIVE populate_instructors(_, _, _)
populate_instructors(d, g, is) ==
    IF is = <<>> THEN Committed(d)
    ELSE LET i == g.I[Head(is)]
             r == dbm_add_instructor(d, i.instructor_id, i.name, i.age, i.email)
         IN IF r.raised THEN r ELSE populate_instructors(r.db, g, Tail(is))

RECURSIVE populate_students(_, _, _)
populate_students(d, g, ss) ==
    IF ss = <<>> THEN Committed(d)
    ELSE LET s == g.S[Head(ss)]
             r == dbm_add_student(d, s.student_id, s.name, s.age, s.email)
         IN IF r.raised THEN r ELSE populate_students(r.db, g, Tail(ss))

RECURSIVE populate_courses(_, _, _)
populate_courses(d, g, cs) ==
    IF cs = <<>> THEN Committed(d)
    ELSE LET c == g.C[Head(cs)]
             r == dbm_add_course(d, c.course_id, c.course_name,
                                 g.I[c.instructor].instructor_id)
         IN IF r.raised THEN r ELSE populate_courses(r.db, g, Tail(cs))

RECURSIVE populate_enrollments(_, _)
populate_enrollments(d, rows) ==
    IF rows = <<>> THEN Committed(d)
    ELSE LET r == dbm_enroll_student(d, Head(rows).student_id, Head(rows).course_id)
         IN IF r.raised THEN r ELSE populate_enrollments(r.db, Tail(rows))

\* _populate_db_from_file_manager without its last loop, the enrollments
populate_entities_only(d, g) ==
    LET pi == populate_instructors(d, g, Values(g.instructors))
        ps == populate_students(pi.db, g, Values(g.students))
    IN IF pi.raised THEN pi
       ELSE IF ps.raised THEN ps
       ELSE populate_courses(ps.db, g, Values(g.courses))

populate_db_from_file_manager(d, g) ==
    LET pi == populate_instructors(d, g, Values(g.instructors))
        ps == populate_students(pi.db, g, Values(g.students))
        pc == populate_courses(ps.db, g, Values(g.courses))
    IN IF pi.raised THEN pi
       ELSE IF ps.raised THEN ps
       ELSE IF pc.raised THEN pc
       ELSE populate_enrollments(pc.db, enrollment_rows(g, Values(g.students)))

\* DatabaseDataManager.data_to_json / data_to_csv: the hydrated graph is
\* handed to a FileManager; written = FALSE when hydration raised
Db_data_to_json(c, d) ==
    LET r == Db_read(c, d)
    IN IF r.raised THEN [written |-> FALSE, file |-> NoFile, res |-> RawValueError]
       ELSE [written |-> TRUE, file |-> save_to_json(Served(r)), res |-> OK]

\* data_to_csv reads through get_students, get_instructors and get_courses
Db_data_to_csv(c, d) ==
    LET r == Db_read(Db_read(Db_read(c, d).cache, d).cache, d)
    IN IF r.raised THEN [written |-> FALSE, file |-> NoDir, res |-> RawValueError]
       ELSE [written |-> TRUE, file |-> save_to_csv(Served(r)), res |-> OK]

\* DatabaseDataManager.data_from_json / data_from_csv: the tables are
\* cleared, the file is loaded into a new FileManager, and the rows are
\* inserted from it; only sqlite3.Error (and the two exceptions that
\* load_from_json never lets out) become DataError
Db_import(d, r) ==
    IF r.res # OK THEN Fail(clear_all_tables(d).db, r.res)
    ELSE Stmt(populate_db_from_file_manager(clear_all_tables(d).db, r.g), d)

Db_data_from_json(d, file) == Db_import(d, load_from_json(file))
Db_data_from_csv(d, dir) == Db_import(d, load_from_csv(dir))

\* ------------------------------------------------------------------------
\* Export and import under the same caller.  Each manager exports to its
\* own path and imports either from that path or from one of the files
\* below.
\* ------------------------------------------------------------------------
MalformedFile ==
    [kind |-> "malformed",
     data |-> [students |-> <<>>, instructors |-> <<>>, courses |-> <<>>]]

InstructorEntry ==
    [name |-> "Dr. Emily Smith", age |-> 20, email |-> "jd@lau.edu",
     instructor_id |-> "199801234", assigned_courses |-> <<>>]

StudentEntry ==
    [name |-> "John Doe", age |-> 20, email |-> "jd@lau.edu",
     student_id |-> "202401111", registered_courses |-> <<>>]

\* a document without the "courses" array
LacksCourses ==
    [kind |-> "json",
     data |-> [instructors |-> <<InstructorEntry>>, students |-> <<StudentEntry>>]]

\* a document whose student entry has a name that check_name rejects
InvalidEntry ==
    [kind |-> "json",
     data |-> [instructors |-> <<InstructorEntry>>,
               students |-> <<[StudentEntry EXCEPT !.name = "123"]>>,
               courses |-> <<>>]]

\* the files an import is given besides the manager's own export
OtherFiles ==
    [missing |-> NoFile, malformed |-> MalformedFile,
     lacks_array |-> LacksCourses, invalid_entry |-> InvalidEntry]

CsvFiles == {"instructors", "students", "courses", "enrollments"}

\* the directory without one of its files
Without(dir, f) == IF f \in CsvFiles THEN [dir EXCEPT ![f] = NoCsv] ELSE dir

DataToJson ==
    /\ calls < MaxCalls
    /\ Invoke("data_to_json", "", "", Done(mem, OK),
              Fail(db, Db_data_to_json(cache, db).res))
    /\ files' = [files EXCEPT
                   !.mjson = Mem_data_to_json(mem),
                   !.djson = IF Db_data_to_json(cache, db).written
                             THEN Db_data_to_json(cache, db).file ELSE @]
    /\ cache' = Db_read(cache, db).cache

DataFromJson ==
    \E f \in {"exported"} \cup DOMAIN OtherFiles :
        /\ calls < MaxCalls
        /\ Invoke("data_from_json", f, "",
                  Mem_data_from_json(mem, IF f = "exported" THEN files.mjson
                                          ELSE OtherFiles[f]),
                  Db_data_from_json(db, IF f = "exported" THEN files.djson
                                        ELSE OtherFiles[f]))
        /\ UNCHANGED <<files, cache>>

DataToCsv ==
    /\ calls < MaxCalls
    /\ Invoke("data_to_csv", "", "", Done(mem, OK),
              Fail(db, Db_data_to_csv(cache, db).res))
    /\ files' = [files EXCEPT
                   !.mcsv = Mem_data_to_csv(mem),
                   !.dcsv = IF Db_data_to_csv(cache, db).written
                            THEN Db_data_to_csv(cache, db).file ELSE @]
    /\ cache' = Db_read(cache, db).cache

\* the import reads the directory exported to, from which one of the four
\* files may have been deleted
DataFromCsv ==
    \E f \in {"exported"} \cup CsvFiles :
        /\ calls < MaxCalls
        /\ Invoke("data_from_csv", f, "",
                  Mem_data_from_csv(mem, Without(files.mcsv, f)),
                  Db_data_from_csv(db, Without(files.dcsv, f)))
        /\ UNCHANGED <<files, cache>>

IOOps == {"data_to_json", "data_from_json", "data_to_csv", "data_from_csv"}

\* the caller builds a graph with the contract operations and then exports
\* and imports
NextIO ==
    \/ (op[1] \notin IOOps /\ Next)
    \/ DataToJson
    \/ DataFromJson
    \/ DataToCsv
    \/ DataFromCsv

SpecIO == Init /\ [][NextIO]_vars

\* the import that follows reads the file the export before it wrote
RoundTrip(export, import) ==
    op[1] = export /\ op' = <<import, "exported", "">>

\* C11: on the MemoryDataManager, data_to_json followed by data_from_json of
\* the file written, and data_to_csv followed by data_from_csv of the
\* directory written, succeed and leave a graph with the same students,
\* instructors and courses, the same field values and the same
\* registered_courses, enrolled_students, assigned_courses and course
\* instructors as sets
C11_RoundTrip ==
    [][(RoundTrip("data_to_json", "data_from_json")
          \/ RoundTrip("data_to_csv", "data_from_csv"))
        => (mres' = OK /\ Observe(mem') = Observe(mem))]_vars

Empty(g) ==
    /\ DOMAIN g.students = {}
    /\ DOMAIN g.instructors = {}
    /\ DOMAIN g.courses = {}

\* C13: after data_from_json of a file that is missing, is not JSON, lacks
\* one of the three arrays or has an entry that fails validation, the graph
\* of either manager is empty, whatever it held before
C13_FailedJsonImportLeavesEmpty ==
    [][\A f \in DOMAIN OtherFiles : \A d2 \in {db'} : \A g2 \in {Hydrated(d2)} :
        op' = <<"data_from_json", f, "">>
        => (Empty(mem') /\ Empty(g2) /\ d2 = create_tables)]_vars

\* C14: data_from_json of a missing or malformed file, and data_from_csv of
\* a directory lacking one of its four files, raise DataError on both
\* managers
C14_FailedImportReported ==
    [][(\/ \E f \in {"missing", "malformed"} : op' = <<"data_from_json", f, "">>
        \/ \E f \in CsvFiles : op' = <<"data_from_csv", f, "">>)
        => (IsDataError(mres') /\ IsDataError(dres'))]_vars

\* C15: whichever of the four CSV files is absent, load_from_csv leaves
\* students, instructors and courses all empty (on the DatabaseDataManager:
\* every table), the entities read from the files present included
C15_CsvAllOrNothing ==
    [][\A f \in CsvFiles :
        op' = <<"data_from_csv", f, "">> => (Empty(mem') /\ db' = create_tables)]_vars

\* data_from_csv has read the instructors, the students and the courses of
\* the directory before it found enrollments.csv absent
C15_Witness ==
    /\ op = <<"data_from_csv", "enrollments", "">>
    /\ files.mcsv.instructors.rows # <<>>
    /\ files.mcsv.students.rows # <<>>
    /\ files.mcsv.courses.rows # <<>>
    /\ files.dcsv.courses.rows # <<>>
    /\ Empty(mem)
    /\ db = create_tables

\* ------------------------------------------------------------------------
\* Reads: get_student / get_students and their instructor and course
\* counterparts.  A read changes neither graph; its outcome is recorded.
\* The DatabaseDataManager hydrates the rows anew for every read.
\* ------------------------------------------------------------------------
Mem_get(dict, id) == IF id \in DOMAIN dict THEN OK ELSE NotFound

Mem_get_student(m, student_id) == Mem_get(m.students, student_id)
Mem_get_instructor(m, instructor_id) == Mem_get(m.instructors, instructor_id)
Mem_get_course(m, course_id) == Mem_get(m.courses, course_id)
Mem_get_all(m) == OK

\* which is "students", "instructors" or "courses": the lookup map used
Db_get(c, d, which, id) ==
    LET r == Db_read(c, d)
    IN IF r.raised THEN RawValueError
       ELSE IF id \in DOMAIN Served(r)[which] THEN OK ELSE NotFound

Db_get_student(c, d, student_id) == Db_get(c, d, "students", student_id)
Db_get_instructor(c, d, instructor_id) == Db_get(c, d, "instructors", instructor_id)
Db_get_course(c, d, course_id) == Db_get(c, d, "courses", course_id)
Db_get_all(c, d) == IF Db_read(c, d).raised THEN RawValueError ELSE OK

\* ------------------------------------------------------------------------
\* A caller that passes whatever a form holds: values that fail validation,
\* a subset of the fields, a key no entity has.  op[3] is the kwargs of an
\* add or an edit.
\* ------------------------------------------------------------------------
\* number of calls such a caller makes
MaxRawCalls == 5

\* add_student / add_instructor: a valid form, or one with a single field
\* that fails validation
PersonForms(idkey, ids, name) ==
    LET good == {(idkey :> id) @@ [name |-> name, age |-> 20, email |-> "jd@lau.edu"]
                   : id \in ids}
        form == CHOOSE f \in good : TRUE
    IN good \cup {[form EXCEPT !.name = "123"], [form EXCEPT !.age = 121],
                  [form EXCEPT !.email = "not-an-email"],
                  [form EXCEPT ![idkey] = "123"]}

\* the fields an edit_student / edit_instructor supplies besides the id
PersonEdits ==
    << [name |-> "Jane Dane"], [name |-> "123"], [age |-> 21], [age |-> 121],
       [email |-> "e.smith@university.edu", nickname |-> "JD"],
       [email |-> "not-an-email", nickname |-> "JD"],
       [name |-> "Jane Dane", age |-> 21, email |-> "e.smith@university.edu"],
       [name |-> "Jane Dane", age |-> 121, email |-> "jd@lau.edu"] >>

\* the fields an edit_course supplies besides the id; "instructor" stands
\* for an Instructor object of the caller's choice
CourseEdits ==
    << [course_name |-> "Calculus III"], [course_name |-> "x"],
       [instructor |-> "object"],
       [course_name |-> "Calculus III", credits |-> "3"],
       [course_name |-> "Calculus III", instructor |-> "object"] >>

AddStudentRaw ==
    \E kw \in PersonForms("student_id", StudentIds, "John Doe") :
        /\ calls < MaxRawCalls
        /\ DOMAIN mem.S # StudentRefs
        /\ Call("add_student", kw.student_id, kw,
                Mem_add_student(mem, kw), Db_add_student(db, kw))

EditStudentRaw ==
    \E id \in StudentIds, k \in DOMAIN PersonEdits :
        LET kw == ("student_id" :> id) @@ PersonEdits[k]
        IN /\ calls < MaxRawCalls
           /\ Call("edit_student", id, kw,
                   Mem_edit_student(mem, kw), Db_edit_student(db, kw))

RemoveStudentRaw ==
    \E id \in StudentIds :
        /\ calls < MaxRawCalls
        /\ Call("remove_student", id, "",
                Mem_remove_student(mem, id), Db_remove_student(db, id))

GetStudent ==
    \E id \in StudentIds :
        /\ calls < MaxRawCalls
        /\ Read("get_student", id, Mem_get_student(mem, id),
                Db_get_student(cache, db, id))

GetStudents ==
    /\ calls < MaxRawCalls
    /\ Read("get_students", "", Mem_get_all(mem), Db_get_all(cache, db))

AddInstructorRaw ==
    \E kw \in PersonForms("instructor_id", InstructorIds, "Dr. Emily Smith") :
        /\ calls < MaxRawCalls
        /\ DOMAIN mem.I # InstructorRefs
        /\ Call("add_instructor", kw.instructor_id, kw,
                Mem_add_instructor(mem, kw), Db_add_instructor(db, kw))

\* edit_instructor runs the Person.update that edit_student runs: one valid
\* and one invalid field, a key that is not a field, and a mixed call
InstructorEditKinds == {1, 2, 5, 8}

EditInstructorRaw ==
    \E id \in InstructorIds, k \in InstructorEditKinds :
        LET kw == ("instructor_id" :> id) @@ PersonEdits[k]
        IN /\ calls < MaxRawCalls
           /\ Call("edit_instructor", id, kw,
                   Mem_edit_instructor(mem, kw), Db_edit_instructor(db, kw))

RemoveInstructorRaw ==
    \E id \in InstructorIds :
        /\ calls < MaxRawCalls
        /\ Call("remove_instructor", id, "",
                Mem_remove_instructor(mem, id), Db_remove_instructor(db, id))

GetInstructor ==
    \E id \in InstructorIds :
        /\ calls < MaxRawCalls
        /\ Read("get_instructor", id, Mem_get_instructor(mem, id),
                Db_get_instructor(cache, db, id))

GetInstructors ==
    /\ calls < MaxRawCalls
    /\ Read("get_instructors", "", Mem_get_all(mem), Db_get_all(cache, db))

\* kwargs with the Instructor object replaced by x
WithInstructor(kw, x) ==
    IF "instructor" \in DOMAIN kw THEN [kw EXCEPT !.instructor = x] ELSE kw

AddCourseRaw ==
    \E id \in {"EECE230", "bad!!"}, cn \in {"Software Engineering", "x"},
       i \in DOMAIN mem.I :
        LET kw == [course_id |-> id, course_name |-> cn, instructor |-> "object"]
        IN /\ calls < MaxRawCalls
           /\ DOMAIN mem.C # CourseRefs
           /\ Call("add_course", id, WithInstructor(kw, mem.I[i].instructor_id),
                   Mem_add_course(mem, WithInstructor(kw, i)),
                   Db_add_course(db, WithInstructor(kw, DbInstructor(i))))

EditCourseRaw ==
    \E id \in CourseIds, k \in DOMAIN CourseEdits, i \in DOMAIN mem.I :
        LET kw == ("course_id" :> id) @@ CourseEdits[k]
        IN /\ calls < MaxRawCalls
           /\ Call("edit_course", id, WithInstructor(kw, mem.I[i].instructor_id),
                   Mem_edit_course(mem, WithInstructor(kw, i)),
                   Db_edit_course(db, WithInstructor(kw, DbInstructor(i))))

RemoveCourseRaw ==
    \E id \in CourseIds :
        /\ calls < MaxRawCalls
        /\ Call("remove_course", id, "",
                Mem_remove_course(mem, id), Db_remove_course(db, id))

GetCourse ==
    \E id \in CourseIds :
        /\ calls < MaxRawCalls
        /\ Read("get_course", id, Mem_get_course(mem, id),
                Db_get_course(cache, db, id))

GetCourses ==
    /\ calls < MaxRawCalls
    /\ Read("get_courses", "", Mem_get_all(mem), Db_get_all(cache, db))

EnrollStudentRaw ==
    \E s \in StudentIds, c \in CourseIds :
        /\ calls < MaxRawCalls
        /\ Call("enroll_student", s, c,
                Mem_enroll_student(mem, s, c), Db_enroll_student(db, s, c))

NextRaw ==
    \/ AddStudentRaw
    \/ EditStudentRaw
    \/ RemoveStudentRaw
    \/ GetStudent
    \/ GetStudents
    \/ AddInstructorRaw
    \/ EditInstructorRaw
    \/ RemoveInstructorRaw
    \/ GetInstructor
    \/ GetInstructors
    \/ AddCourseRaw
    \/ EditCourseRaw
    \/ RemoveCourseRaw
    \/ GetCourse
    \/ GetCourses
    \/ EnrollStudentRaw

SpecRaw == Init /\ [][NextRaw]_vars

\* ------------------------------------------------------------------------
\* A caller at the edges of the input space: ids that differ by surrounding
\* whitespace or letter case, ages at and beyond the limits, and an
\* Instructor object that is not in the graph
\* ------------------------------------------------------------------------
MaxEdgeCalls == 5

EdgeStudentIds == {"202401111", " 202401111 "}
EdgeInstructorIds == {"199801234", " 199801234 "}
EdgeCourseIds == {"EECE230", "eece230"}
EdgeAges == {0, 120, 0 - 1, 121}

AddStudentEdge ==
    \E id \in EdgeStudentIds :
        LET kw == [name |-> "John Doe", age |-> 20, email |-> "jd@lau.edu",
                   student_id |-> id]
        IN /\ calls < MaxEdgeCalls
           /\ DOMAIN mem.S # StudentRefs
           /\ Call("add_student", id, kw,
                   Mem_add_student(mem, kw), Db_add_student(db, kw))

AddInstructorEdge ==
    \E id \in EdgeInstructorIds :
        LET kw == [name |-> "Dr. Emily Smith", age |-> 20, email |-> "jd@lau.edu",
                   instructor_id |-> id]
        IN /\ calls < MaxEdgeCalls
           /\ DOMAIN mem.I # InstructorRefs
           /\ Call("add_instructor", id, kw,
                   Mem_add_instructor(mem, kw), Db_add_instructor(db, kw))

RemoveInstructorEdge ==
    \E id \in EdgeInstructorIds :
        /\ calls < MaxEdgeCalls
        /\ Call("remove_instructor", id, "",
                Mem_remove_instructor(mem, id), Db_remove_instructor(db, id))

\* add_course with an instructor obtained from the manager
AddCourseEdge ==
    \E id \in EdgeCourseIds, i \in DOMAIN mem.I :
        LET kw == [course_id |-> id, course_name |-> "Software Engineering",
                   instructor |-> "object"]
        IN /\ calls < MaxEdgeCalls
           /\ DOMAIN mem.C # CourseRefs
           /\ Call("add_course", id, WithInstructor(kw, mem.I[i].instructor_id),
                   Mem_add_course(mem, WithInstructor(kw, i)),
                   Db_add_course(db, WithInstructor(kw, DbInstructor(i))))

\* MemoryDataManager.add_course given an Instructor object obj that the
\* caller holds and that no dictionary of the datastore refers to
Mem_add_course_held(m, kw, obj) ==
    LET r == NewRef(m.I, InstructorRefs)
    IN Mem_add_course([m EXCEPT !.I = (r :> obj) @@ @], WithInstructor(kw, r))

\* add_course with an Instructor object that is not in the graph: one that
\* was never added, or was removed after the caller obtained it
AddCourseHeld ==
    \E id \in EdgeCourseIds, h \in InstructorIds :
        LET kw == [course_id |-> id, course_name |-> "Software Engineering",
                   instructor |-> "object"]
            obj == Instructor_init([name |-> "Dr. Emily Smith", age |-> 20,
                                    email |-> "jd@lau.edu", instructor_id |-> h])
        IN /\ calls < MaxEdgeCalls
           /\ h \notin DOMAIN mem.instructors
           /\ h \notin DOMAIN db.instructors
           /\ DOMAIN mem.I # InstructorRefs
           /\ DOMAIN mem.C # CourseRefs
           /\ Call("add_course", id, WithInstructor(kw, h),
                   Mem_add_course_held(mem, kw, obj),
                   Db_add_course(db, WithInstructor(kw, [instructor_id |-> h])))

EnrollStudentEdge ==
    \E s \in EdgeStudentIds, c \in EdgeCourseIds :
        /\ calls < MaxEdgeCalls
        /\ Call("enroll_student", s, c,
                Mem_enroll_student(mem, s, c), Db_enroll_student(db, s, c))

EditStudentAge ==
    \E age \in EdgeAges :
        LET kw == [student_id |-> "202401111", age |-> age]
        IN /\ calls < MaxEdgeCalls
           /\ Call("edit_student", kw.student_id, kw,
                   Mem_edit_student(mem, kw), Db_edit_student(db, kw))

EditInstructorAge ==
    \E age \in EdgeAges :
        LET kw == [instructor_id |-> "199801234", age |-> age]
        IN /\ calls < MaxEdgeCalls
           /\ Call("edit_instructor", kw.instructor_id, kw,
                   Mem_edit_instructor(mem, kw), Db_edit_instructor(db, kw))

NextEdge ==
    \/ AddStudentEdge
    \/ AddInstructorEdge
    \/ RemoveInstructorEdge
    \/ AddCourseEdge
    \/ AddCourseHeld
    \/ EnrollStudentEdge
    \/ EditStudentAge
    \/ EditInstructorAge

SpecEdge == Init /\ [][NextEdge]_vars

\* ------------------------------------------------------------------------
\* Properties of the raw caller
\* ------------------------------------------------------------------------
EditOps == {"edit_student", "edit_instructor", "edit_course"}

\* the kwargs hold a recognized field whose value the validator rejects
InvalidValue(kw) ==
    \/ "name" \in DOMAIN kw /\ ~check_name(kw.name)
    \/ "age" \in DOMAIN kw /\ ~check_age(kw.age)
    \/ "email" \in DOMAIN kw /\ ~check_email_r(kw.email)
    \/ "course_name" \in DOMAIN kw /\ ~check_course_name(kw.course_name)

ValidPerson(o) == check_name(o.name) /\ check_age(o.age) /\ check_email_r(o.email)

\* every value held by an object of graph m, and by a row of store d, passes
\* validation
StoredValid(m, d) ==
    /\ \A r \in DOMAIN m.S : ValidPerson(m.S[r])
    /\ \A r \in DOMAIN m.I : ValidPerson(m.I[r])
    /\ \A r \in DOMAIN m.C : check_course_name(m.C[r].course_name)
    /\ \A k \in DOMAIN d.students : ValidPerson(d.students[k])
    /\ \A k \in DOMAIN d.instructors : ValidPerson(d.instructors[k])
    /\ \A k \in DOMAIN d.courses : check_course_name(d.courses[k].course_name)

\* C16: on both managers an edit_student, edit_instructor or edit_course
\* that supplies a recognized field with a value that fails validation
\* raises DataError, and no value that fails validation is stored
C16_EditValidates ==
    [][(op'[1] \in EditOps /\ InvalidValue(op'[3]))
        => /\ IsDataError(mres')
           /\ IsDataError(dres')
           /\ StoredValid(mem', db')]_vars

NotFoundOps ==
    {"edit_student", "remove_student", "get_student",
     "edit_instructor", "remove_instructor", "get_instructor",
     "edit_course", "remove_course", "get_course", "enroll_student"}

\* call o names a student, instructor or course id that is not among the
\* ids S, I, C of the graph
NamesAbsent(o, S, I, C) ==
    \/ o[1] \in {"edit_student", "remove_student", "get_student"} /\ o[2] \notin S
    \/ o[1] \in {"edit_instructor", "remove_instructor", "get_instructor"} /\ o[2] \notin I
    \/ o[1] \in {"edit_course", "remove_course", "get_course"} /\ o[2] \notin C
    \/ o[1] = "enroll_student" /\ (o[2] \notin S \/ o[3] \notin C)

\* C17: an edit, remove, get or enroll that names an id which is not in
\* the graph raises DataError (NotFound) and leaves the graph unchanged,
\* on the volatile and on the persistent manager
C17_NotFoundLeavesGraph ==
    [][op'[1] \in NotFoundOps =>
        /\ NamesAbsent(op', DOMAIN mem.students, DOMAIN mem.instructors,
                        DOMAIN mem.courses)
              => (mres' = NotFound /\ mem' = mem)
        /\ NamesAbsent(op', DOMAIN db.students, DOMAIN db.instructors,
                        DOMAIN db.courses)
              => (dres' = NotFound /\ db' = db)]_vars

\* the fields of the entities and the enrollment edges of a graph; the
\* assigned_courses of an instructor follow the instructor of the courses
ObserveFields(g) ==
    LET o == Observe(g)
    IN [o EXCEPT !.instructors =
            [k \in DOMAIN @ |-> [name |-> @[k].name, age |-> @[k].age,
                                 email |-> @[k].email]]]

\* the id each dictionary key's object carries
IdFields(g) ==
    [students |-> [k \in DOMAIN g.students |-> g.S[g.students[k]].student_id],
     instructors |-> [k \in DOMAIN g.instructors |->
                        g.I[g.instructors[k]].instructor_id],
     courses |-> [k \in DOMAIN g.courses |-> g.C[g.courses[k]].course_id]]

\* the keyword arguments of an edit under the names of the fields they
\* set: edit_course takes the instructor as "instructor"
Supplied(name, kw) ==
    IF name = "edit_course" /\ "instructor" \in DOMAIN kw
    THEN [f \in (DOMAIN kw \ {"instructor"}) \cup {"instructor_id"}
            |-> IF f = "instructor_id" THEN kw.instructor ELSE kw[f]]
    ELSE kw

\* new is old except for the fields of the entities ids that kw supplies
Frame(old, new, ids, kw) ==
    /\ DOMAIN new = DOMAIN old
    /\ \A k \in DOMAIN old :
          /\ DOMAIN new[k] = DOMAIN old[k]
          /\ \A f \in DOMAIN old[k] :
                new[k][f] = IF k \in ids /\ f \in DOMAIN kw THEN kw[f]
                            ELSE old[k][f]

EditedTable(name) ==
    CASE name = "edit_student" -> "students"
      [] name = "edit_instructor" -> "instructors"
      [] name = "edit_course" -> "courses"

Tables == {"students", "instructors", "courses"}

GetOps == {"get_student", "get_instructor", "get_course"}
GetAllOps == {"get_students", "get_instructors", "get_courses"}

\* C19: get and getAll change nothing; a get raises DataError (NotFound)
\* exactly when the id is not in the graph and returns normally otherwise,
\* and a getAll always returns normally, on both managers
C19_ReadsPureAndTotal ==
    [][op'[1] \in GetOps \cup GetAllOps =>
        /\ mem' = mem
        /\ db' = db
        /\ op'[1] \in GetAllOps => (mres' = OK /\ dres' = OK)
        /\ op'[1] \in GetOps =>
              /\ mres' = IF NamesAbsent(op', DOMAIN mem.students,
                                 DOMAIN mem.instructors, DOMAIN mem.courses)
                          THEN NotFound ELSE OK
              /\ dres' = IF NamesAbsent(op', DOMAIN db.students,
                                 DOMAIN db.instructors, DOMAIN db.courses)
                          THEN NotFound ELSE OK]_vars

AddOps == {"add_student", "add_instructor", "add_course"}

\* the id or a field of the add fails validation
InvalidAdd(o) ==
    \/ InvalidValue(o[3])
    \/ o[1] \in {"add_student", "add_instructor"} /\ ~check_id(o[2])
    \/ o[1] = "add_course" /\ ~check_course_id(o[2])

\* C20: on both managers an add whose id or field fails validation raises
\* DataError (ValidationError) and leaves the graph unchanged; a rejected
\* add_course does not extend the instructor's assigned_courses
C20_AddValidatesFirst ==
    [][(op'[1] \in AddOps /\ InvalidAdd(op'))
        => /\ mres' = ValidationError
           /\ dres' = ValidationError
           /\ mem' = mem
           /\ db' = db]_vars

\* add_course with course id "bad!!" was rejected on both managers while
\* the instructor it names is in the graph and holds no course
C20_Witness ==
    /\ op[1] = "add_course" /\ op[2] = "bad!!"
    /\ mres = ValidationError /\ dres = ValidationError
    /\ op[3].instructor \in DOMAIN mem.instructors
    /\ op[3].instructor \in DOMAIN db.instructors
    /\ mem.I[mem.instructors[op[3].instructor]].assigned_courses = <<>>
    /\ DOMAIN mem.courses = {} /\ DOMAIN db.courses = {}

ReadTable(name) ==
    CASE name = "get_student" -> "students"
      [] name = "get_instructor" -> "instructors"
      [] name = "get_course" -> "courses"

MutatingOps ==
    {"add_student", "edit_student", "remove_student",
     "add_instructor", "edit_instructor", "remove_instructor",
     "add_course", "edit_course", "remove_course", "enroll_student"}

\* C23: the hydration cache of the persistent manager is empty whenever a
\* mutating call has returned
C23_MutationInvalidatesCache ==
    [][op'[1] \in MutatingOps => cache' = clear_cache]_vars

\* the store's constraints reject the statement that call o issues on rows
\* d: a delete of an instructor that a course row names, an insert of a
\* course row naming an instructor that has no row, an insert of an
\* enrollment row that exists
StoreRejects(o, d) ==
    \/ /\ o[1] = "remove_instructor"
       /\ o[2] \in DOMAIN d.instructors
       /\ \E c \in DOMAIN d.courses : d.courses[c].instructor_id = o[2]
    \/ /\ o[1] = "add_course"
       /\ upper(strip(o[2])) \notin DOMAIN d.courses
       /\ o[3].instructor \notin DOMAIN d.instructors
    \/ /\ o[1] = "enroll_student"
       /\ <<o[2], o[3]>> \in d.enrollments

\* C22: on the persistent manager a mutation that the relational store
\* rejects (foreign key or primary key) raises DataError, never a raw
\* storage exception, and leaves the rows unchanged
C22_StoreErrorsWrapped ==
    [][StoreRejects(op', db) => (IsDataError(dres') /\ db' = db)]_vars

\* remove_instructor was refused for an instructor that a course row names
C22_Witness ==
    /\ op[1] = "remove_instructor"
    /\ dres = StoreError
    /\ op[2] \in DOMAIN db.instructors
    /\ \E c \in DOMAIN db.courses : db.courses[c].instructor_id = op[2]

\* ------------------------------------------------------------------------
\* Hydration as a function of the tables: the four tables hold any rows,
\* also course rows and enrollment rows whose references have no row
\* ------------------------------------------------------------------------
PersonRow == [name |-> "John Doe", age |-> 20, email |-> "jd@lau.edu"]
CourseRows ==
    {[course_name |-> "Software Engineering", instructor_id |-> i] :
        i \in InstructorIds}

AllTables ==
    {[students |-> [k \in S |-> PersonRow],
      instructors |-> [k \in I |-> PersonRow],
      courses |-> f,
      enrollments |-> E] :
        S \in SUBSET StudentIds, I \in SUBSET InstructorIds,
        f \in UNION {[C -> CourseRows] : C \in SUBSET CourseIds},
        E \in SUBSET (StudentIds \X CourseIds)}

InitTables ==
    /\ mem = FileManager_init
    /\ db \in AllTables
    /\ op = <<"init", "", "">>
    /\ mres = OK
    /\ dres = OK
    /\ calls = 0
    /\ files = [mjson |-> NoFile, djson |-> NoFile, mcsv |-> NoDir, dcsv |-> NoDir]
    /\ cache = clear_cache

HydrateTables ==
    /\ calls = 0
    /\ Read("get_courses", "", Mem_get_all(mem), Db_get_all(cache, db))

SpecTables == InitTables /\ [][HydrateTables]_vars

\* the course rows whose instructor has a row
ResolvedCourses(d) ==
    {c \in DOMAIN d.courses : d.courses[c].instructor_id \in DOMAIN d.instructors}

MaxDocCourses == 2

InstructorEntryOf(id, assigned) ==
    [InstructorEntry EXCEPT !.instructor_id = id, !.assigned_courses = assigned]

CourseEntryOf(id, i, enrolled) ==
    [course_id |-> id, course_name |-> "Software Engineering",
     instructor_id |-> i, enrolled_students |-> enrolled]

DocInstructors ==
    {<<InstructorEntryOf("199801234", a)>> : a \in {<<>>, <<"MATH201">>}}
    \cup {<<InstructorEntryOf("199801234", a), InstructorEntryOf("199505678", <<>>)>> :
            a \in {<<>>, <<"MATH201">>}}

DocStudents ==
    {<<>>} \cup {<<[StudentEntry EXCEPT !.registered_courses = r]>> :
                    r \in {<<>>, <<"EECE230">>, <<"EECE230", "MATH201">>}}

DocCourseEntries ==
    {CourseEntryOf(c, i, e) : c \in {"EECE230", "MATH201"},
                              i \in {"199801234", "199505678"},
                              e \in {<<>>, <<"202401111">>}}

DocCourses == UNION {[1..n -> DocCourseEntries] : n \in 0..MaxDocCourses}

JsonDocs ==
    {[kind |-> "json", data |-> [instructors |-> is, students |-> ss, courses |-> cs]] :
        is \in DocInstructors, ss \in DocStudents, cs \in DocCourses}

\* the rows of a csv directory holding what a document holds; enrollments.csv
\* has one more row, of a student that students.csv lacks
RECURSIVE registered_rows(_)
registered_rows(ss) ==
    IF ss = <<>> THEN <<>>
    ELSE [k \in 1..Len(Head(ss).registered_courses) |->
            [student_id |-> Head(ss).student_id,
             course_id |-> Head(ss).registered_courses[k]]]
         \o registered_rows(Tail(ss))

CsvOf(doc) ==
    LET d == doc.data
    IN [instructors |-> [exists |-> TRUE, rows |->
            [k \in 1..Len(d.instructors) |->
                [instructor_id |-> d.instructors[k].instructor_id,
                 name |-> d.instructors[k].name, age |-> str(d.instructors[k].age),
                 email |-> d.instructors[k].email]]],
        students |-> [exists |-> TRUE, rows |->
            [k \in 1..Len(d.students) |->
                [student_id |-> d.students[k].student_id,
                 name |-> d.students[k].name, age |-> str(d.students[k].age),
                 email |-> d.students[k].email]]],
        courses |-> [exists |-> TRUE, rows |->
            [k \in 1..Len(d.courses) |->
                [course_id |-> d.courses[k].course_id,
                 course_name |-> d.courses[k].course_name,
                 instructor_id |-> d.courses[k].instructor_id]]],
        enrollments |-> [exists |-> TRUE, rows |->
            registered_rows(d.students)
            \o <<[student_id |-> "202302222", course_id |-> "EECE230"]>>]]

ImportJson ==
    \E doc \in JsonDocs :
        /\ calls = 0
        /\ Invoke("data_from_json", "document", doc.data,
                  Mem_data_from_json(mem, doc), Db_data_from_json(db, doc))
        /\ UNCHANGED <<files, cache>>

ImportCsv ==
    \E doc \in JsonDocs :
        /\ calls = 0
        /\ Invoke("data_from_csv", "directory", doc.data,
                  Mem_data_from_csv(mem, CsvOf(doc)), Db_data_from_csv(db, CsvOf(doc)))
        /\ UNCHANGED <<files, cache>>

NextImport ==
    \/ ImportJson
    \/ ImportCsv

SpecImport == Init /\ [][NextImport]_vars

\* C25: after a successful data_from_json or data_from_csv of a well-formed
\* input (one that may repeat a course id under different instructors, name
\* an instructor it lacks, or enrol a student or a course it lacks) the
\* graph of the MemoryDataManager satisfies invariants 1 and 2, and no
\* instructor's assigned_courses holds a course that is not the course the
\* graph stores under that id
ImportOps == {"data_from_json", "data_from_csv"}

NoStrayAssigned(g) ==
    \A k \in DOMAIN g.instructors :
        \A c \in Range(g.I[g.instructors[k]].assigned_courses) :
            /\ g.C[c].course_id \in DOMAIN g.courses
            /\ g.courses[g.C[c].course_id] = c

C25_ImportConsistent ==
    (op[1] \in ImportOps /\ op[2] \in {"document", "directory"} /\ mres = OK) =>
        /\ InstructorLinked(mem)
        /\ EnrollmentSymmetric(mem)
        /\ NoStrayAssigned(mem)

\* a document that repeats a course id under two instructors was imported
\* and the first instructor still lists the course that was replaced
C25_Counterexample ==
    /\ op[1] = "data_from_json"
    /\ op[2] = "document"
    /\ mres = OK
    /\ Len(op[3].courses) = 2
    /\ op[3].courses[1].course_id = op[3].courses[2].course_id
    /\ op[3].courses[1].instructor_id # op[3].courses[2].instructor_id
    /\ ~NoStrayAssigned(mem)

\* the document without what its enrolled_students and assigned_courses
\* lists hold
OneSide(data) ==
    [data EXCEPT
        !.instructors = [k \in 1..Len(data.instructors) |->
                            [data.instructors[k] EXCEPT !.assigned_courses = <<>>]],
        !.courses = [k \in 1..Len(data.courses) |->
                        [data.courses[k] EXCEPT !.enrolled_students = <<>>]]]

\* the course entries of a document that are loaded: their instructor is an
\* instructor of the document
LoadedEntries(data) ==
    {k \in 1..Len(data.courses) :
        \E j \in 1..Len(data.instructors) :
            data.instructors[j].instructor_id = data.courses[k].instructor_id}

\* C26: data_from_json of a document derives the relationships from one
\* side: a student is registered in exactly the loaded courses that the
\* student's entry lists in registered_courses, a course's enrolled students
\* are exactly those students, a loaded course's instructor is the one its
\* (last) entry names in instructor_id, an instructor is assigned exactly
\* the ids of the loaded course entries that name the instructor, and the
\* enrolled_students and assigned_courses lists of the document change
\* nothing, on either manager
C26_JsonOneSided ==
    (op[1] = "data_from_json" /\ op[2] = "document" /\ mres = OK) =>
        LET data == op[3]
            loaded == LoadedEntries(data)
            ids == {data.courses[k].course_id : k \in loaded}
            last(c) == CHOOSE k \in loaded :
                          /\ data.courses[k].course_id = c
                          /\ \A j \in loaded :
                                data.courses[j].course_id = c => j <= k
            listed(s) == UNION {Range(data.students[k].registered_courses) :
                                  k \in {j \in 1..Len(data.students) :
                                           data.students[j].student_id = s}}
        IN /\ DOMAIN mem.courses = ids
           /\ \A s \in DOMAIN mem.students :
                 RegisteredIds(mem, mem.students[s]) = listed(s) \cap ids
           /\ \A c \in DOMAIN mem.courses :
                 /\ EnrolledIds(mem, mem.courses[c]) =
                      {s \in DOMAIN mem.students : c \in listed(s)}
                 /\ mem.I[mem.C[mem.courses[c]].instructor].instructor_id =
                      data.courses[last(c)].instructor_id
           /\ \A i \in DOMAIN mem.instructors :
                 AssignedIds(mem, mem.instructors[i]) =
                   {data.courses[k].course_id :
                      k \in {j \in loaded : data.courses[j].instructor_id = i}}
           /\ mem = Mem_data_from_json(mem, [kind |-> "json", data |-> OneSide(data)]).st
           /\ dres = OK
           /\ DOMAIN db.courses = ids
           /\ \A c \in DOMAIN db.courses :
                 db.courses[c].instructor_id = data.courses[last(c)].instructor_id
           /\ db.enrollments =
                {e \in (DOMAIN db.students) \X ids : e[2] \in listed(e[1])}

\* a document was imported whose two sides disagree: a course lists a
\* student who does not register it, an instructor lists a course that
\* names another instructor, and a student registers a loaded course that
\* does not list the student
C26_Witness ==
    /\ op[1] = "data_from_json"
    /\ op[2] = "document"
    /\ mres = OK
    /\ dres = OK
    /\ \E k \in LoadedEntries(op[3]), s \in DOMAIN mem.students :
          /\ s \in Range(op[3].courses[k].enrolled_students)
          /\ op[3].courses[k].course_id \notin RegisteredIds(mem, mem.students[s])
    /\ \E k \in LoadedEntries(op[3]), s \in DOMAIN mem.students :
          /\ s \notin Range(op[3].courses[k].enrolled_students)
          /\ op[3].courses[k].course_id \in RegisteredIds(mem, mem.students[s])
    /\ \E j \in 1..Len(op[3].instructors) :
          /\ op[3].instructors[j].assigned_courses # <<>>
          /\ AssignedIds(mem, mem.instructors[op[3].instructors[j].instructor_id])
               # Range(op[3].instructors[j].assigned_courses)

\* the ids of the entities that get_students, get_instructors and
\* get_courses return: the values of the datastore's dictionaries on the
\* MemoryDataManager, the hydrated lists on the DatabaseDataManager
MemAllIds(g) ==
    [students |-> [k \in 1..Len(Values(g.students)) |->
                      g.S[Values(g.students)[k]].student_id],
     instructors |-> [k \in 1..Len(Values(g.instructors)) |->
                      g.I[Values(g.instructors)[k]].instructor_id],
     courses |-> [k \in 1..Len(Values(g.courses)) |->
                      g.C[Values(g.courses)[k]].course_id]]

DbAllIds(g) ==
    [students |-> [k \in DOMAIN g.S |-> g.S[k].student_id],
     instructors |-> [k \in DOMAIN g.I |-> g.I[k].instructor_id],
     courses |-> [k \in DOMAIN g.C |-> g.C[k].course_id]]

AllDistinct(ids) ==
    NoDup(ids.students) /\ NoDup(ids.instructors) /\ NoDup(ids.courses)

\* C27: after any sequence of adds, with ids that differ from an existing
\* one by letter case or by surrounding whitespace, get_students,
\* get_instructors and get_courses of either manager never return two
\* entities with the same id
C27_IdsUnique ==
    /\ AllDistinct(MemAllIds(mem))
    /\ \A h \in {get_hydrated_data(db)} : ~h.raised => AllDistinct(DbAllIds(h.g))

\* C28: add_course given an Instructor object whose id no instructor of the
\* graph has (never added, or removed after the caller obtained it) fails
\* on both managers and creates no course
C28_AddCourseNeedsInstructor ==
    [][(op'[1] = "add_course"
        /\ op'[3].instructor \notin DOMAIN mem.instructors
        /\ op'[3].instructor \notin DOMAIN db.instructors) =>
          /\ IsDataError(mres')
          /\ IsDataError(dres')
          /\ DOMAIN mem'.courses = DOMAIN mem.courses
          /\ db'.courses = db.courses]_vars

\* C29: an edit_student, edit_instructor or edit_course that fails with a
\* validation error changes no field of any entity, valid fields supplied
\* in the same call included, on either manager
C29_FailedEditAtomic ==
    [][op'[1] \in EditOps =>
          /\ mres' = ValidationError => Observe(mem') = Observe(mem)
          /\ dres' = ValidationError => db' = db]_vars

AgeEditOps == {"edit_student", "edit_instructor"}

AgeTable(name) ==
    CASE name = "edit_student" -> "students"
      [] name = "edit_instructor" -> "instructors"

\* the age get_student / get_instructor shows for id on the MemoryDataManager
MemAge(m, name, id) ==
    IF name = "edit_student" THEN m.S[m.students[id]].age
    ELSE m.I[m.instructors[id]].age

\* C30: edit_student / edit_instructor of an existing entity with age 0 or
\* 120 succeeds and sets the stored age to that value on both managers; with
\* age -1 or 121 it is rejected and the stored age stays
C30_AgeBoundaryOnEdit ==
    [][(op'[1] \in AgeEditOps /\ "age" \in DOMAIN op'[3]) =>
          \A t \in {AgeTable(op'[1])}, id \in {op'[2]}, age \in {op'[3].age} :
             /\ id \in DOMAIN mem[t] =>
                   IF 0 <= age /\ age <= 120
                   THEN mres' = OK /\ MemAge(mem', op'[1], id) = age
                   ELSE /\ IsDataError(mres')
                        /\ MemAge(mem', op'[1], id) = MemAge(mem, op'[1], id)
             /\ id \in DOMAIN db[t] =>
                   IF 0 <= age /\ age <= 120
                   THEN dres' = OK /\ db'[t][id].age = age
                   ELSE IsDataError(dres') /\ db'[t][id].age = db[t][id].age]_vars

====
